---------------------------- MODULE Spec2Model ----------------------------
(***************************************************************************)
(* A model of the reactive coordination layer of forceCalendar/interface:  *)
(* the EventBus (src/src/index.js) and the StateManager                    *)
(* (src/src/core/StateManager.js) wrapping the external calendar engine.   *)
(*                                                                         *)
(* Conventions                                                             *)
(*  - A JavaScript value that may be null is a sequence of length <= 1:    *)
(*    Null is <<>> and Some(v) is <<v>>.                                   *)
(*  - A topic or pattern is the sequence of its characters, so that the    *)
(*    template literal `state:${key}:changed` and the regular expression   *)
(*    built by matchesPattern are computed as the code computes them.      *)
(*  - An object with identity (a subscription, an events array) carries    *)
(*    an id/ref field; two objects are the same object iff the records     *)
(*    are equal.                                                           *)
(*  - Every method is an operator from a "world" record (the heap the      *)
(*    method can reach, its console/call trace and a pending exception)    *)
(*    to the world it leaves. A statement is skipped while an exception is *)
(*    propagating (w.thrown), which is how a throw unwinds the callers.    *)
(***************************************************************************)
EXTENDS Integers, Sequences, FiniteSets, TLC

VARIABLES
    calendar,          \* the engine: [events, view, date]
    state,             \* StateManager.state
    subscribers,       \* StateManager.subscribers (a Set, in insertion order)
    subscriberIds,     \* StateManager._subscriberIds (Null until first used)
    events,            \* EventBus.events: topic -> array of subscriptions
    wildcardHandlers,  \* EventBus.wildcardHandlers (a Set, in insertion order)
    nextSub,           \* identity of the next subscription object created
    op,                \* the last call made: [name, args]
    pre,               \* the heap as it was when that call started
    trace,             \* what that call did, in order
    ret,               \* what it returned
    objects,           \* the state objects that call could reach, as it left them
    promises,          \* the last emit: its handlers' deferred results, its completion
    component,         \* the ForceCalendar element built on the store
    heap,              \* the view-data objects of that call, as it left them
    thrown             \* whether it threw to its caller

vars == <<calendar, state, subscribers, subscriberIds, events,
          wildcardHandlers, nextSub, op, pre, trace, ret, objects, promises,
          component, heap, thrown>>

Null == <<>>
Some(v) == <<v>>

\* What a call returned: the kind of the value, then the value.
Result(kind, value) == <<kind, value>>
Undefined == Result("undefined", Null)

(***************************************************************************)
(* Bounds and input domains                                                *)
(***************************************************************************)
\* number of EventBus.on calls made in one behaviour
MaxSubs == 2

\* Handler functions registered on the bus; those in ThrowingHandlers raise
\* whenever they are invoked.
Handlers == {"h1", "h2"}
ThrowingHandlers == {"h2"}
\* Handler functions that return a promise, which settles after emit returned.
AsyncHandlers == {"a1", "a2"}
Priorities == {0, 1}

\* Direct-subscriber callbacks of the store; cb2 raises whenever invoked.
Callbacks == {"cb1", "cb2"}
ThrowingCallbacks == {"cb2"}
\* The callbacks a ForceCalendar element subscribes: its handleStateChange,
\* and one closure per view renderer it creates (afterRender).
HandleStateChange == "handleStateChange"
\* A subscriber that calls a state-changing method of the store while it is
\* being notified, and a bus handler that emits while it is being called.
ReentrantCallbacks == {"stopLoading"}
RelayHandlers == {"relay"}
\* Handlers that change the subscriptions of the bus while they are called:
\* one subscribes the handler "late" to event:* unless it has done so, one
\* removes the subscriptions to event:*.
AddingHandlers == {"adder"}
RemovingHandlers == {"remover"}
LateHandler == "late"
ViewCallbacks == <<"view1", "view2", "view3">>

EventIds == {"1", "2"}
Titles == {"a", "b"}
Views == {"month", "week"}
\* the engine's current date moves within 1..MaxDate
MaxDate == 2
Dates == 1..MaxDate

(***************************************************************************)
(* Topics (src/src/core/StateManager.js and spec section 6)                *)
(***************************************************************************)
T_state_changed == <<"s", "t", "a", "t", "e", ":", "c", "h", "a", "n", "g", "e", "d">>
T_view_changed == <<"v", "i", "e", "w", ":", "c", "h", "a", "n", "g", "e", "d">>
T_date_changed == <<"d", "a", "t", "e", ":", "c", "h", "a", "n", "g", "e", "d">>
T_navigation_next == <<"n", "a", "v", "i", "g", "a", "t", "i", "o", "n", ":", "n", "e", "x", "t">>
T_navigation_previous == <<"n", "a", "v", "i", "g", "a", "t", "i", "o", "n", ":", "p", "r", "e", "v", "i", "o", "u", "s">>
T_navigation_today == <<"n", "a", "v", "i", "g", "a", "t", "i", "o", "n", ":", "t", "o", "d", "a", "y">>
T_navigation_goto == <<"n", "a", "v", "i", "g", "a", "t", "i", "o", "n", ":", "g", "o", "t", "o">>
T_event_error == <<"e", "v", "e", "n", "t", ":", "e", "r", "r", "o", "r">>
T_event_add == <<"e", "v", "e", "n", "t", ":", "a", "d", "d">>
T_event_added == <<"e", "v", "e", "n", "t", ":", "a", "d", "d", "e", "d">>
T_event_update == <<"e", "v", "e", "n", "t", ":", "u", "p", "d", "a", "t", "e">>
T_event_updated == <<"e", "v", "e", "n", "t", ":", "u", "p", "d", "a", "t", "e", "d">>
T_event_remove == <<"e", "v", "e", "n", "t", ":", "r", "e", "m", "o", "v", "e">>
T_event_deleted == <<"e", "v", "e", "n", "t", ":", "d", "e", "l", "e", "t", "e", "d">>
T_event_selected == <<"e", "v", "e", "n", "t", ":", "s", "e", "l", "e", "c", "t", "e", "d">>
T_event_deselected == <<"e", "v", "e", "n", "t", ":", "d", "e", "s", "e", "l", "e", "c", "t", "e", "d">>
T_date_selected == <<"d", "a", "t", "e", ":", "s", "e", "l", "e", "c", "t", "e", "d">>
T_date_deselected == <<"d", "a", "t", "e", ":", "d", "e", "s", "e", "l", "e", "c", "t", "e", "d">>
T_error == <<"e", "r", "r", "o", "r">>
\* the two ends of the template literal `state:${key}:changed`
StatePrefix == <<"s", "t", "a", "t", "e", ":">>
ChangedSuffix == <<":", "c", "h", "a", "n", "g", "e", "d">>
\* a wildcard pattern a component may listen on
P_event_star == <<"e", "v", "e", "n", "t", ":", "*">>
P_navigation_star == <<"n", "a", "v", "i", "g", "a", "t", "i", "o", "n", ":", "*">>

\* The keys of the state object, in the order Object.keys enumerates them.
StateKeys == <<"view", "currentDate", "events", "selectedEvent",
               "selectedDate", "loading", "error", "config">>

\* The characters of each state key.
KeyChars == [view |-> <<"v", "i", "e", "w">>,
             currentDate |-> <<"c", "u", "r", "r", "e", "n", "t", "D", "a", "t", "e">>,
             events |-> <<"e", "v", "e", "n", "t", "s">>,
             selectedEvent |-> <<"s", "e", "l", "e", "c", "t", "e", "d", "E", "v", "e", "n", "t">>,
             selectedDate |-> <<"s", "e", "l", "e", "c", "t", "e", "d", "D", "a", "t", "e">>,
             loading |-> <<"l", "o", "a", "d", "i", "n", "g">>,
             error |-> <<"e", "r", "r", "o", "r">>,
             config |-> <<"c", "o", "n", "f", "i", "g">>]

(***************************************************************************)
(* Helpers on sequences and maps                                           *)
(***************************************************************************)
Contains(s, c) == \E i \in DOMAIN s : s[i] = c

RemoveAt(s, i) == SubSeq(s, 1, i - 1) \o SubSeq(s, i + 1, Len(s))

\* Array.prototype.findIndex / indexOf, 1-based; 0 when nothing is found.
FindIndex(s, P(_)) ==
    IF \E i \in DOMAIN s : P(s[i])
    THEN CHOOSE i \in DOMAIN s : P(s[i]) /\ \A j \in 1..(i - 1) : ~P(s[j])
    ELSE 0

\* new Map()
EmptyMap == [t \in {} |-> <<>>]

SetKey(m, k, v) == [x \in DOMAIN m \cup {k} |-> IF x = k THEN v ELSE m[x]]
DelKey(m, k) == [x \in DOMAIN m \ {k} |-> m[x]]

Log(w, entry) == [w EXCEPT !.trace = Append(@, entry)]

\* obj[key]: undefined for a key the object does not have
Field(obj, key) == IF key \in DOMAIN obj THEN obj[key] ELSE Undefined

\* null in a field that held an object (this.state, this.calendar after
\* destroy): it has no field, and `{ ...null }` is `{}`.
Released == EmptyMap

\* a ForceCalendar element that is not connected
NoComponent == [currentView |-> <<>>, instance |-> <<>>, viewUnsubscribe |-> <<>>,
                renderers |-> <<>>, listening |-> {}, panel |-> "none",
                container |-> <<>>, painted |-> FALSE, peer |-> "new"]

\* Promise.all over promises in the given states: rejected as soon as one of
\* them is, fulfilled once all of them are (at once when there is none).
PromiseAll(results) ==
    IF \E i \in DOMAIN results : results[i] = "rejected" THEN "rejected"
    ELSE IF \A i \in DOMAIN results : results[i] = "fulfilled" THEN "fulfilled"
    ELSE "pending"
NoPromises == [results |-> <<>>, completion |-> PromiseAll(<<>>)]

(***************************************************************************)
(* EventBus (src/src/index.js)                                             *)
(***************************************************************************)

\* new RegExp('^' + pattern.replace(/\*/g, '.*') + '$').test(eventName):
\* `*` becomes `.*`; every other character of the pattern is regular
\* expression syntax as it stands, so `.` matches any one character and a
\* letter or `:` matches itself.
RECURSIVE matchesPattern(_, _)
matchesPattern(eventName, pattern) ==
    IF pattern = <<>> THEN eventName = <<>>
    ELSE IF Head(pattern) = "*"
    THEN \E i \in 0..Len(eventName) :
            matchesPattern(SubSeq(eventName, i + 1, Len(eventName)), Tail(pattern))
    ELSE IF eventName = <<>> THEN FALSE
    ELSE /\ (Head(pattern) = "." \/ Head(pattern) = Head(eventName))
         /\ matchesPattern(Tail(eventName), Tail(pattern))

\* A bus that forgets to sort: handlers stay in registration order.
sortHandlers_none(handlers) == handlers

\* handlers.sort((a, b) => b.priority - a.priority): a stable sort,
\* descending by priority.
RECURSIVE sortHandlers(_)
sortHandlers(handlers) ==
    IF handlers = <<>> THEN <<>>
    ELSE LET front == sortHandlers(SubSeq(handlers, 1, Len(handlers) - 1))
             last == handlers[Len(handlers)]
             pos == Cardinality({i \in DOMAIN front : front[i].priority >= last.priority})
         IN SubSeq(front, 1, pos) \o <<last>> \o SubSeq(front, pos + 1, Len(front))

\* A bus that keeps the wildcard subscriptions ordered by priority as well.
on_prioritised(w, eventName, handler, once, priority) ==
    IF Contains(eventName, "*")
    THEN LET subscription == [id |-> w.nextSub, pattern |-> eventName,
                              handler |-> handler, once |-> once, priority |-> priority]
         IN [w EXCEPT !.wildcardHandlers = sortHandlers(Append(@, subscription)),
                      !.nextSub = @ + 1]
    ELSE LET subscription == [id |-> w.nextSub, handler |-> handler,
                              once |-> once, priority |-> priority]
             handlers == IF eventName \in DOMAIN w.events THEN w.events[eventName] ELSE <<>>
         IN [w EXCEPT !.events = SetKey(@, eventName, sortHandlers(Append(handlers, subscription))),
                      !.nextSub = @ + 1]

on(w, eventName, handler, once, priority) ==
    IF Contains(eventName, "*")
    THEN LET subscription == [id |-> w.nextSub, pattern |-> eventName,
                              handler |-> handler, once |-> once, priority |-> priority]
         IN [w EXCEPT !.wildcardHandlers = Append(@, subscription),
                      !.nextSub = @ + 1]
    ELSE LET subscription == [id |-> w.nextSub, handler |-> handler,
                              once |-> once, priority |-> priority]
             handlers == IF eventName \in DOMAIN w.events THEN w.events[eventName] ELSE <<>>
         IN [w EXCEPT !.events = SetKey(@, eventName, sortHandlers(Append(handlers, subscription))),
                      !.nextSub = @ + 1]

\* An unsubscribe function that looks its subscription up by handler.
unsubscribeFn_byHandler(w, id) ==
    LET handlersOf == {s.handler : s \in {x \in {w.wildcardHandlers[i] : i \in DOMAIN w.wildcardHandlers}
                                   \cup UNION {{w.events[t][i] : i \in DOMAIN w.events[t]} :
                                               t \in DOMAIN w.events} : x.id = id}}
    IN [w EXCEPT
        !.wildcardHandlers = SelectSeq(@, LAMBDA s : s.handler \notin handlersOf),
        !.events = [t \in DOMAIN @ |-> SelectSeq(@[t], LAMBDA s : s.handler \notin handlersOf)]]

\* The function on() returned for the subscription object with identity id.
\* A wildcard subscription is deleted from the Set; an exact one is spliced
\* out of the array on() pushed it to, which is the topic's array in the Map
\* whenever the subscription is still registered.
unsubscribeFn(w, id) ==
    [w EXCEPT
        !.wildcardHandlers = SelectSeq(@, LAMBDA s : s.id # id),
        !.events = [t \in DOMAIN @ |-> SelectSeq(@[t], LAMBDA s : s.id # id)]]

off(w, eventName, handler) ==
    IF Contains(eventName, "*")
    THEN LET index == FindIndex(w.wildcardHandlers,
                                LAMBDA s : s.pattern = eventName /\ s.handler = handler)
         IN IF index > 0
            THEN [w EXCEPT !.wildcardHandlers = RemoveAt(@, index)]
            ELSE w
    ELSE IF eventName \notin DOMAIN w.events THEN w
    ELSE LET handlers == w.events[eventName]
             index == FindIndex(handlers, LAMBDA s : s.handler = handler)
             spliced == IF index > 0 THEN RemoveAt(handlers, index) ELSE handlers
         IN IF Len(spliced) = 0
            THEN [w EXCEPT !.events = DelKey(@, eventName)]
            ELSE [w EXCEPT !.events = SetKey(@, eventName, spliced)]

offWildcard(w, pattern) ==
    [w EXCEPT !.wildcardHandlers = SelectSeq(@, LAMBDA s : s.pattern # pattern)]

offAll(w, handler) ==
    LET spliced(handlers) ==
            LET index == FindIndex(handlers, LAMBDA s : s.handler = handler)
            IN IF index > 0 THEN RemoveAt(handlers, index) ELSE handlers
        kept == {t \in DOMAIN w.events : Len(spliced(w.events[t])) # 0}
    IN [w EXCEPT !.events = [t \in kept |-> spliced(w.events[t])],
                 !.wildcardHandlers = SelectSeq(@, LAMBDA s : s.handler # handler)]

clear(w) == [w EXCEPT !.events = EmptyMap, !.wildcardHandlers = <<>>]

\* if (result instanceof Promise) promises.push(result)
collect(w, handler) ==
    IF handler \in AsyncHandlers
    THEN [w EXCEPT !.promises.results = Append(@, "pending")]
    ELSE w

\* the handler that emits, defined with emit
RECURSIVE relay(_, _, _)

\* () => { if (!subscribed) { subscribed = true; eventBus.on('event:*', late); } }
subscribeLate(w) ==
    IF \E i \in DOMAIN w.wildcardHandlers : w.wildcardHandlers[i].handler = LateHandler
    THEN w
    ELSE on(w, P_event_star, LateHandler, FALSE, 0)

\* what the handler does with (data, eventName), and what becomes of its result
runHandler(w, handler, data, eventName) ==
    IF handler \in RelayHandlers THEN relay(w, data, eventName)
    ELSE IF handler \in AddingHandlers THEN subscribeLate(w)
    ELSE IF handler \in RemovingHandlers THEN offWildcard(w, P_event_star)
    ELSE collect(w, handler)

\* A handler call without the try/catch: what the handler raises propagates.
invoke_uncaught(w, subscription, data, eventName) ==
    LET called == Log(w, [k |-> "call", sub |-> subscription,
                          topic |-> eventName, data |-> data])
    IN IF subscription.handler \in ThrowingHandlers
       THEN [called EXCEPT !.thrown = TRUE]
       ELSE runHandler(called, subscription.handler, data, eventName)

\* One handler call inside its try/catch: the handler is invoked with
\* (data, eventName); what it raises is caught and reported on the console.
invoke(w, subscription, data, eventName) ==
    LET called == Log(w, [k |-> "call", sub |-> subscription,
                          topic |-> eventName, data |-> data])
    IN IF subscription.handler \in ThrowingHandlers
       THEN Log(called, [k |-> "console.error"])
       ELSE runHandler(called, subscription.handler, data, eventName)

\* the loop over the copy of the topic's array
RECURSIVE emitExact(_, _, _, _, _)
emitExact(w, eventName, data, handlers, i) ==
    IF i > Len(handlers) \/ w.thrown THEN w
    ELSE LET subscription == handlers[i]
             removed == IF subscription.once
                        THEN off(w, eventName, subscription.handler)
                        ELSE w
         IN emitExact(invoke(removed, subscription, data, eventName),
                      eventName, data, handlers, i + 1)

\* the loop over the copy of the wildcard Set
RECURSIVE emitWildcard(_, _, _, _, _)
emitWildcard(w, eventName, data, subs, i) ==
    IF i > Len(subs) \/ w.thrown THEN w
    ELSE IF matchesPattern(eventName, subs[i].pattern)
    THEN emitWildcard(invoke(w, subs[i], data, eventName), eventName, data, subs, i + 1)
    ELSE emitWildcard(w, eventName, data, subs, i + 1)

\* toRemove.forEach(sub => this.wildcardHandlers.delete(sub)), subs being the
\* copy of the Set the wildcard loop ran over
removeOnce(w, eventName, subs) ==
    LET toRemove == {subs[i].id : i \in {j \in DOMAIN subs :
                        subs[j].once /\ matchesPattern(eventName, subs[j].pattern)}}
    IN IF w.thrown THEN w
       ELSE [w EXCEPT !.wildcardHandlers = SelectSeq(@, LAMBDA s : s.id \notin toRemove)]

\* the second half of emit: the wildcard subscriptions
emitWildcards(w, eventName, data) ==
    removeOnce(emitWildcard(w, eventName, data, w.wildcardHandlers, 1),
               eventName, w.wildcardHandlers)

\* Being async, emit hands whatever its body raised to the returned promise
\* (which rejects) and never to its caller.
settle(w) ==
    [w EXCEPT !.thrown = FALSE,
              !.ret = Result("promise", IF w.thrown THEN "rejected"
                                        ELSE PromiseAll(w.promises.results)),
              !.promises.completion = IF w.thrown THEN "rejected"
                                      ELSE PromiseAll(w.promises.results)]

\* async emit(eventName, data). The body has no await, so it runs to its end
\* within the call.
emit(w, eventName, data) ==
    IF w.thrown THEN w
    ELSE settle(emitWildcards(
             emitExact(Log([w EXCEPT !.promises.results = <<>>],
                           [k |-> "emit", topic |-> eventName, data |-> data]),
                       eventName, data,
                       IF eventName \in DOMAIN w.events THEN w.events[eventName] ELSE <<>>,
                       1),
             eventName, data))

\* (data, eventName) => { if (eventName === 'event:add') eventBus.emit('event:added', data); }
\* The promises array of the emit that called the handler is that call's own.
relay(w, data, eventName) ==
    IF eventName = T_event_add
    THEN [emit(w, T_event_added, data) EXCEPT !.promises.results = w.promises.results]
    ELSE w

(***************************************************************************)
(* The engine (@forcecalendar/core Calendar), an external collaborator:    *)
(* its contract is section 6 of the specification. Event ids are unique in *)
(* its collection; a rejected mutation leaves it as it was. `ok` is the    *)
(* engine's own verdict on the payload (validation), which the store       *)
(* cannot foresee.                                                         *)
(***************************************************************************)
HasId(evs, id) == \E i \in DOMAIN evs : evs[i].id = id

coreAddEvent(cal, event, ok) ==
    IF ok /\ ~HasId(cal.events, event.id)
    THEN [cal |-> [cal EXCEPT !.events = Append(@, event)], ret |-> Some(event)]
    ELSE [cal |-> cal, ret |-> Null]

coreUpdateEvent(cal, eventId, updates, ok) ==
    IF ok /\ HasId(cal.events, eventId)
    THEN LET i == CHOOSE j \in DOMAIN cal.events : cal.events[j].id = eventId
             updated == [cal.events[i] EXCEPT !.title = updates.title]
         IN [cal |-> [cal EXCEPT !.events[i] = updated], ret |-> Some(updated)]
    ELSE [cal |-> cal, ret |-> Null]

coreRemoveEvent(cal, eventId) ==
    IF HasId(cal.events, eventId)
    THEN [cal |-> [cal EXCEPT !.events = SelectSeq(@, LAMBDA e : e.id # eventId)],
          ret |-> TRUE]
    ELSE [cal |-> cal, ret |-> FALSE]

CoreViews == {"month", "week", "day"}
coreSetView(cal, view) == IF view \in CoreViews THEN [cal EXCEPT !.view = view] ELSE cal
coreGoToDate(cal, date) == [cal EXCEPT !.date = date]
coreNext(cal) == [cal EXCEPT !.date = @ + 1]
corePrevious(cal) == [cal EXCEPT !.date = @ - 1]
\* the day the clock shows
Today == 1

\* A toDateString that tells instants apart, not days.
toDateString_instant(date) == date

\* A Date is the instant it holds. Date.prototype.toDateString() names the
\* calendar day the instant falls on: several instants share a day.
InstantsPerDay == 2
toDateString(date) == date \div InstantsPerDay

\* Calendar.getEventsForDate(date): the events of the model all take place on
\* the day of Today.
coreGetEventsForDate(cal, date) ==
    IF toDateString(date) = toDateString(Today) THEN cal.events ELSE <<>>
coreToday(cal) == [cal EXCEPT !.date = Today]

(***************************************************************************)
(* StateManager (src/src/core/StateManager.js)                             *)
(***************************************************************************)

\* A new array object: the least identity no array reachable in this call has.
FreshRef(w) ==
    CHOOSE n \in 0..Cardinality(w.refs) :
        n \notin w.refs /\ \A m \in 0..(n - 1) : m \in w.refs

_eventsMatch(arr1, arr2) ==
    IF Len(arr1) # Len(arr2) THEN FALSE
    ELSE LET ids1 == {arr1[i].id : i \in DOMAIN arr1}
         IN \A i \in DOMAIN arr2 : arr2[i].id \in ids1

\* the callbacks of the ForceCalendar element, defined with the element
RECURSIVE handleStateChange(_, _, _)
RECURSIVE viewCallback(_, _, _, _)
\* the subscriber that calls the store, defined with the store's methods
RECURSIVE stopLoading(_, _, _)

\* what the callback does with (newState, oldState)
runCallback(w, callback, newState, oldState) ==
    IF callback = HandleStateChange THEN handleStateChange(w, newState, oldState)
    ELSE IF callback \in ReentrantCallbacks THEN stopLoading(w, newState, oldState)
    ELSE IF Contains(ViewCallbacks, callback)
    THEN viewCallback(w, callback, newState, oldState)
    ELSE w

\* callback(newState, oldState) inside its try/catch
callSubscriber(w, callback, newState, oldState) ==
    LET called == Log(w, [k |-> "subscriber", callback |-> callback,
                          newState |-> newState, oldState |-> oldState,
                          self |-> w.self])
    IN IF callback \in ThrowingCallbacks
       THEN Log(called, [k |-> "console.error"])
       ELSE runCallback(called, callback, newState, oldState)

RECURSIVE notifyNext(_, _, _, _, _)

\* this.subscribers.forEach(...): Set.prototype.forEach goes on with the
\* first member it has not visited yet, as the Set is at that moment, so a
\* member deleted before its turn is skipped and a member added during the
\* loop is visited. done holds the members visited so far.
RECURSIVE notifyFrom(_, _, _, _)
notifyFrom(w, oldState, newState, done) ==
    IF w.thrown \/ \A i \in DOMAIN w.subscribers : w.subscribers[i] \in done THEN w
    ELSE notifyNext(w, oldState, newState, done,
                    CHOOSE i \in DOMAIN w.subscribers :
                        /\ w.subscribers[i] \notin done
                        /\ \A j \in 1..(i - 1) : w.subscribers[j] \in done)

notifyNext(w, oldState, newState, done, i) ==
    notifyFrom(callSubscriber(w, w.subscribers[i], newState, oldState),
               oldState, newState, done \cup {w.subscribers[i]})

notifySubscribers(w, oldState, newState) ==
    IF w.thrown THEN w ELSE notifyFrom(w, oldState, newState, {})

\* changedKeys.forEach(key => eventBus.emit(`state:${key}:changed`, ...))
RECURSIVE emitKeys(_, _, _, _, _)
emitKeys(w, changedKeys, oldState, newState, i) ==
    IF i > Len(changedKeys) \/ w.thrown THEN w
    ELSE LET key == changedKeys[i]
         IN emitKeys(emit(w, StatePrefix \o KeyChars[key] \o ChangedSuffix,
                          [oldValue |-> Field(oldState, key), newValue |-> newState[key],
                           state |-> newState]),
                     changedKeys, oldState, newState, i + 1)

\* if (changedKeys.length > 0) eventBus.emit('state:changed', ...)
emitAggregate(w, changedKeys, oldState, newState) ==
    IF Len(changedKeys) > 0
    THEN emit(w, T_state_changed, [oldState |-> oldState, newState |-> newState,
                                   changedKeys |-> changedKeys])
    ELSE w

\* An emitStateChange that compares the events arrays by their elements
\* instead of by identity.
emitStateChange_byValue(w, oldState, newState) ==
    IF w.thrown THEN w
    ELSE LET changedKeys ==
                 SelectSeq(StateKeys,
                           LAMBDA key : IF key = "events"
                                        THEN oldState[key].items # newState[key].items
                                        ELSE oldState[key] # newState[key])
         IN emitAggregate(emitKeys(w, changedKeys, oldState, newState, 1),
                          changedKeys, oldState, newState)

emitStateChange(w, oldState, newState) ==
    IF w.thrown THEN w
    ELSE LET changedKeys ==
                 SelectSeq(StateKeys,
                           LAMBDA key : /\ key \in DOMAIN newState
                                        /\ (key \in DOMAIN oldState => oldState[key] # newState[key]))
         IN emitAggregate(emitKeys(w, changedKeys, oldState, newState, 1),
                          changedKeys, oldState, newState)

\* A setState that publishes on the bus before it calls the subscribers.
setState_busFirst(w, updates, silent) ==
    IF w.thrown THEN w
    ELSE LET oldState == w.state
             newState == [key \in DOMAIN w.state \cup DOMAIN updates |->
                             IF key \in DOMAIN updates THEN updates[key] ELSE w.state[key]]
             w1 == [w EXCEPT !.state = newState,
                             !.self = Cardinality(DOMAIN w.objects),
                             !.objects = @ @@ (Cardinality(DOMAIN w.objects) :> newState)]
         IN IF silent THEN w1
            ELSE notifySubscribers(emitStateChange(w1, oldState, newState),
                                   oldState, newState)

\* A setState that writes the patch into the object this.state refers to.
setState_inPlace(w, updates, silent) ==
    IF w.thrown THEN w
    ELSE LET oldState == w.state
             newState == [key \in DOMAIN w.state \cup DOMAIN updates |->
                             IF key \in DOMAIN updates THEN updates[key] ELSE w.state[key]]
             w1 == [w EXCEPT !.state = newState, !.objects[w.self] = newState]
         IN IF silent THEN w1
            ELSE emitStateChange(notifySubscribers(w1, oldState, newState),
                                 oldState, newState)

\* const oldState = { ...this.state }; this.state = { ...this.state, ...updates }:
\* oldState is a copy, and this.state becomes a NEW object (w.self names the
\* object this.state refers to, w.objects holds the objects' contents), so
\* the object that was this.state before is left as it was.
setState(w, updates, silent) ==
    IF w.thrown THEN w
    ELSE LET oldState == w.state
             newState == [key \in DOMAIN w.state \cup DOMAIN updates |->
                             IF key \in DOMAIN updates THEN updates[key] ELSE w.state[key]]
             w1 == [w EXCEPT !.state = newState,
                             !.self = Cardinality(DOMAIN w.objects),
                             !.objects = @ @@ (Cardinality(DOMAIN w.objects) :> newState)]
         IN IF silent THEN w1
            ELSE emitStateChange(notifySubscribers(w1, oldState, newState),
                                 oldState, newState)

\* A resync that replaces the mirror only when it is forced to.
_syncEventsFromCore_forceOnly(w, silent, force) ==
    IF w.thrown THEN w
    ELSE LET coreEvents == w.calendar.events
             ref == FreshRef(w)
         IN IF force
            THEN setState([w EXCEPT !.refs = @ \cup {ref}],
                          [events |-> [ref |-> ref, items |-> coreEvents]], silent)
            ELSE w

\* A resync that always goes by the id comparison and ignores `force`.
_syncEventsFromCore_gated(w, silent, force) ==
    IF w.thrown THEN w
    ELSE LET coreEvents == w.calendar.events
             ref == FreshRef(w)
         IN IF \/ Len(w.state.events.items) # Len(coreEvents)
               \/ ~_eventsMatch(w.state.events.items, coreEvents)
            THEN setState([w EXCEPT !.refs = @ \cup {ref}],
                          [events |-> [ref |-> ref, items |-> coreEvents]], silent)
            ELSE w

_syncEventsFromCore(w, silent, force) ==
    IF w.thrown THEN w
    ELSE LET coreEvents == w.calendar.events
             ref == FreshRef(w)
         IN IF \/ force
               \/ Len(w.state.events.items) # Len(coreEvents)
               \/ ~_eventsMatch(w.state.events.items, coreEvents)
            THEN setState([w EXCEPT !.refs = @ \cup {ref}],
                          [events |-> [ref |-> ref, items |-> coreEvents]], silent)
            ELSE w

\* `return value`, unless an exception is on its way out
\* the end of a method without a return statement
Void(w) == IF w.thrown THEN w ELSE [w EXCEPT !.ret = Undefined]

Return(w, kind, value) == IF w.thrown THEN w ELSE [w EXCEPT !.ret = Result(kind, value)]


\* the engine answered `answer` to this.calendar.<method>(...)
CoreCall(w, method, kind, answer) ==
    Log(w, [k |-> "calendar", method |-> method, answer |-> Result(kind, answer)])

ConsoleError(w) == IF w.thrown THEN w ELSE Log(w, [k |-> "console.error"])

\* An addEvent that publishes event:added before event:add.
addEvent_addedFirst(w, event, ok) ==
    LET core == coreAddEvent(w.calendar, event, ok)
        w1 == CoreCall([w EXCEPT !.calendar = core.cal], "addEvent", "event", core.ret)
    IN IF core.ret = Null
       THEN Return(emit(ConsoleError(w1), T_event_error,
                        [action |-> "add", event |-> event,
                         error |-> "Failed to add event"]),
                   "event", Null)
       ELSE LET addedEvent == core.ret[1]
                w2 == _syncEventsFromCore(w1, FALSE, FALSE)
                w3 == emit(w2, T_event_added, [event |-> addedEvent])
                w4 == emit(w3, T_event_add, [event |-> addedEvent])
            IN Return(w4, "event", Some(addedEvent))

\* An addEvent whose rejection branch does not return: it reports the error
\* and goes on to resync and to publish event:add and event:added.
addEvent_fallthrough(w, event, ok) ==
    LET core == coreAddEvent(w.calendar, event, ok)
        w1 == CoreCall([w EXCEPT !.calendar = core.cal], "addEvent", "event", core.ret)
        w2 == IF core.ret = Null
              THEN emit(ConsoleError(w1), T_event_error,
                        [action |-> "add", event |-> event,
                         error |-> "Failed to add event"])
              ELSE w1
        w3 == _syncEventsFromCore(w2, FALSE, FALSE)
        w4 == emit(w3, T_event_add, [event |-> core.ret])
        w5 == emit(w4, T_event_added, [event |-> core.ret])
    IN Return(w5, "event", core.ret)

addEvent(w, event, ok) ==
    LET core == coreAddEvent(w.calendar, event, ok)
        w1 == CoreCall([w EXCEPT !.calendar = core.cal], "addEvent", "event", core.ret)
    IN IF core.ret = Null
       THEN Return(emit(ConsoleError(w1), T_event_error,
                        [action |-> "add", event |-> event,
                         error |-> "Failed to add event"]),
                   "event", Null)
       ELSE LET addedEvent == core.ret[1]
                w2 == _syncEventsFromCore(w1, FALSE, FALSE)
                w3 == emit(w2, T_event_add, [event |-> addedEvent])
                w4 == emit(w3, T_event_added, [event |-> addedEvent])
            IN Return(w4, "event", Some(addedEvent))

updateEvent(w, eventId, updates, ok) ==
    LET w0 == _syncEventsFromCore(w, TRUE, FALSE)
        core == coreUpdateEvent(w0.calendar, eventId, updates, ok)
        w1 == CoreCall([w0 EXCEPT !.calendar = core.cal], "updateEvent", "event", core.ret)
    IN IF core.ret = Null
       THEN Return(emit(ConsoleError(w1), T_event_error,
                        [action |-> "update", eventId |-> eventId, updates |-> updates,
                         error |-> "Event not found in calendar"]),
                   "event", Null)
       ELSE LET event == core.ret[1]
                w2 == _syncEventsFromCore(w1, FALSE, TRUE)
                w3 == emit(w2, T_event_update, [event |-> event])
                w4 == emit(w3, T_event_updated, [event |-> event])
            IN Return(w4, "event", Some(event))

deleteEvent(w, eventId) ==
    LET w0 == _syncEventsFromCore(w, TRUE, FALSE)
        core == coreRemoveEvent(w0.calendar, eventId)
        w1 == CoreCall([w0 EXCEPT !.calendar = core.cal], "removeEvent", "boolean", core.ret)
    IN IF ~core.ret
       THEN Return(emit(ConsoleError(w1), T_event_error,
                        [action |-> "delete", eventId |-> eventId,
                         error |-> "Event not found"]),
                   "boolean", FALSE)
       ELSE LET w2 == _syncEventsFromCore(w1, FALSE, FALSE)
                w3 == emit(w2, T_event_remove, [eventId |-> eventId])
                w4 == emit(w3, T_event_deleted, [eventId |-> eventId])
            IN Return(w4, "boolean", TRUE)

syncEvents(w) == Return(_syncEventsFromCore(w, FALSE, FALSE), "events", w.calendar.events)

\* this.calendar.setView(view); this.setState({ view }); emit('view:changed').
\* An engine given a view it does not know either leaves its view as it is or
\* raises (strict); what it raises leaves setView at once.
setView(w, view, strict) ==
    IF strict /\ view \notin CoreViews
    THEN [w EXCEPT !.thrown = TRUE]
    ELSE LET w1 == [w EXCEPT !.calendar = coreSetView(@, view)]
             w2 == setState(w1, [view |-> view], FALSE)
         IN Void(emit(w2, T_view_changed, [view |-> view]))

\* this.setState({ currentDate: this.calendar.getCurrentDate() }) followed by
\* eventBus.emit(topic, { date: this.state.currentDate })
emitDate(w, topic) == emit(w, topic, [date |-> w.state.currentDate])
publishDate(w, topic) ==
    Void(emitDate(setState(w, [currentDate |-> w.calendar.date], FALSE), topic))

setDate(w, date) == publishDate([w EXCEPT !.calendar = coreGoToDate(@, date)], T_date_changed)
next(w) == publishDate([w EXCEPT !.calendar = coreNext(@)], T_navigation_next)
previous(w) == publishDate([w EXCEPT !.calendar = corePrevious(@)], T_navigation_previous)
today(w) == publishDate([w EXCEPT !.calendar = coreToday(@)], T_navigation_today)
goToDate(w, date) == publishDate([w EXCEPT !.calendar = coreGoToDate(@, date)], T_navigation_goto)

(* View data. The objects and arrays of a view structure live in w.heap, a
   sequence indexed by object identity: an object is a function from its
   field names, an array is a sequence, and a field or element that refers to
   an object or array holds its identity. `{ ...x }` and `map` append new
   objects; an assignment to a field rewrites the object it is made on. *)
selectedDateString(st) ==
    IF st.selectedDate = Null THEN Null ELSE Some(toDateString(st.selectedDate[1]))

\* { ...day, isSelected: dayDate.toDateString() === selectedDateString,
\*   events: day.events || this.getEventsForDate(dayDate) }
enrichedDay(day, selectedString, cal) ==
    ("isSelected" :> (selectedString = Some(toDateString(day.date))))
        @@ ("events" :> (IF "events" \in DOMAIN day THEN day.events
                         ELSE coreGetEventsForDate(cal, day.date)))
        @@ day

\* days.map(day => ...): the new day objects, then the new array, which is
\* the last object of the heap returned
mapDays(h, days, selectedString, cal) ==
    h \o [i \in 1..Len(days) |-> enrichedDay(h[days[i]], selectedString, cal)]
      \o <<[i \in 1..Len(days) |-> Len(h) + i]>>

\* ({ ...week, days: <the array mapDays made> })
withWeek(h, week) == Append(h, ("days" :> Len(h)) @@ week)

\* enriched.weeks.map(week => ...)
RECURSIVE mapWeeks(_, _, _, _, _, _)
RECURSIVE mapWeeksFrom(_, _, _, _, _, _)
mapWeeks(h, weeks, i, acc, selectedString, cal) ==
    IF i > Len(weeks) THEN Append(h, acc)
    ELSE mapWeeksFrom(withWeek(mapDays(h, h[h[weeks[i]].days], selectedString, cal),
                               h[weeks[i]]),
                      weeks, i, acc, selectedString, cal)
mapWeeksFrom(h, weeks, i, acc, selectedString, cal) ==
    mapWeeks(h, weeks, i + 1, Append(acc, Len(h)), selectedString, cal)

\* enriched.<field> = <the array just made>
assignLast(h, enriched, field) == [h EXCEPT ![enriched] = (field :> Len(h)) @@ @]

\* Strategy 1: if (enriched.weeks)
multiWeek(h, enriched, selectedString, cal) ==
    IF "weeks" \in DOMAIN h[enriched]
    THEN assignLast(mapWeeks(h, h[h[enriched].weeks], 1, <<>>, selectedString, cal),
                    enriched, "weeks")
    ELSE h

\* Strategy 2: if (enriched.days)
flatDays(h, enriched, selectedString, cal) ==
    IF "days" \in DOMAIN h[enriched]
    THEN assignLast(mapDays(h, h[h[enriched].days], selectedString, cal),
                    enriched, "days")
    ELSE h

\* Strategy 3: if (enriched.date && !enriched.days && !enriched.weeks)
singleDay(h, enriched, selectedString, cal) ==
    IF "date" \in DOMAIN h[enriched] /\ "days" \notin DOMAIN h[enriched]
                                     /\ "weeks" \notin DOMAIN h[enriched]
    THEN [h EXCEPT ![enriched] = enrichedDay(@, selectedString, cal)]
    ELSE h

strategies(h, enriched, selectedString, cal) ==
    singleDay(flatDays(multiWeek(h, enriched, selectedString, cal),
                       enriched, selectedString, cal),
              enriched, selectedString, cal)

\* An enrichViewData that works on the engine's object itself.
enrichViewData_noCopy(w, viewData) ==
    Return([w EXCEPT !.heap = strategies(@, viewData, selectedDateString(w.state),
                                         w.calendar)],
           "viewData", viewData)

\* const enriched = { ...viewData }; ...; return enriched
enrichViewData(w, viewData) ==
    Return([w EXCEPT !.heap = strategies(Append(@, @[viewData]), Len(@) + 1,
                                         selectedDateString(w.state), w.calendar)],
           "viewData", Len(w.heap) + 1)

\* Calendar.getViewData() hands out the root of the structure the engine
\* holds, which is object 1 of the heap.
coreGetViewData(cal) == 1
getViewData(w) == enrichViewData(w, coreGetViewData(w.calendar))

(* Snapshots. For getState and getEvents the heap of the call starts with
   the objects the store and the engine hold (StoreObjects): 1 is the object
   this.state refers to, 2 its events array, 3 its config object, 4 the
   engine's event collection. *)
StateObject == 1
StateEvents == 2
StateConfig == 3
CoreEvents == 4
StoreObjects(st, cal) ==
    <<[st EXCEPT !.events = StateEvents, !.config = StateConfig],
      st.events.items, st.config, cal.events>>

\* { ...this.state, config: { ...this.state.config }, events: [...this.state.events] }
getState(w) ==
    Return([w EXCEPT !.heap =
                @ \o <<@[@[StateObject].config], @[@[StateObject].events],
                       [@[StateObject] EXCEPT !.config = Len(w.heap) + 1,
                                              !.events = Len(w.heap) + 2]>>],
           "snapshot", Len(w.heap) + 3)

\* Calendar.getEvents(): the engine answers with an array of its events; the
\* store cannot tell whether it is the array the engine keeps (own) or a
\* new one.
coreGetEvents(w, own) ==
    IF own THEN Return(w, "events", CoreEvents)
    ELSE Return([w EXCEPT !.heap = Append(@, @[CoreEvents])], "events", Len(w.heap) + 1)

\* return this.calendar.getEvents() || []
getEvents(w, own) == coreGetEvents(w, own)

selectEvent(w, event) ==
    Void(emit(setState(w, [selectedEvent |-> Some(event)], FALSE),
              T_event_selected, [event |-> event]))

selectEventById(w, eventId) ==
    LET items == w.state.events.items
        index == FindIndex(items, LAMBDA e : e.id = eventId)
    IN IF index > 0 THEN selectEvent(w, items[index]) ELSE w

deselectEvent(w) ==
    Void(emit(setState(w, [selectedEvent |-> Null], FALSE), T_event_deselected, <<>>))

selectDate(w, date) ==
    Void(emit(setState(w, [selectedDate |-> Some(date)], FALSE),
              T_date_selected, [date |-> date]))

\* A deselectDate that clears the selected event along with the date.
deselectDate_both(w) ==
    Void(emit(setState(w, [selectedDate |-> Null, selectedEvent |-> Null], FALSE),
              T_date_deselected, <<>>))

deselectDate(w) ==
    Void(emit(setState(w, [selectedDate |-> Null], FALSE), T_date_deselected, <<>>))

setLoading(w, loading) == Void(setState(w, [loading |-> loading], FALSE))

\* (newState) => { if (newState.loading) stateManager.setLoading(false); }
stopLoading(w, newState, oldState) ==
    IF "loading" \in DOMAIN newState /\ newState.loading
    THEN setLoading(w, FALSE)
    ELSE w

\* error is Null or Some(message); `if (error)` holds for Some
emitError(w, error) == IF error # Null THEN emit(w, T_error, [error |-> error]) ELSE w
setError(w, error) == Void(emitError(setState(w, [error |-> error], FALSE), error))

clearError(w) == Void(setState(w, [error |-> Null], FALSE))

\* A destroy that forgets to release the subscribers.
destroy_keepSubscribers(w) ==
    Void([w EXCEPT !.state = Released, !.calendar = Released])

\* destroy(): the Set and the id Map are cleared, the fields set to null
destroy(w) ==
    Void([w EXCEPT !.subscribers = <<>>, !.subscriberIds = Null,
                   !.state = Released, !.calendar = Released])

\* subscriberId is Null or Some(id)
subscribe(w, callback, subscriberId) ==
    LET w1 == [w EXCEPT !.subscribers = IF Contains(@, callback) THEN @ ELSE Append(@, callback)]
    IN IF subscriberId # Null
       THEN [w1 EXCEPT !.subscriberIds =
                Some(SetKey(IF @ = Null THEN EmptyMap ELSE @[1], subscriberId[1], callback))]
       ELSE w1

unsubscribe(w, callback, subscriberId) ==
    LET w1 == [w EXCEPT !.subscribers = SelectSeq(@, LAMBDA c : c # callback)]
    IN IF subscriberId # Null /\ w1.subscriberIds # Null
       THEN [w1 EXCEPT !.subscriberIds = Some(DelKey(@[1], subscriberId[1]))]
       ELSE w1

\* unsubscribeById(subscriberId)
unsubscribeById(w, subscriberId) ==
    IF w.subscriberIds = Null THEN Return(w, "boolean", FALSE)
    ELSE IF subscriberId \in DOMAIN w.subscriberIds[1]
    THEN Return([w EXCEPT !.subscribers =
                              SelectSeq(@, LAMBDA c : c # w.subscriberIds[1][subscriberId]),
                          !.subscriberIds = Some(DelKey(@[1], subscriberId))],
                "boolean", TRUE)
    ELSE Return(w, "boolean", FALSE)

\* new StateManager(config) over an engine holding cal, with the process-wide
\* bus as it is at that moment.
constructor(bus, cal, config) ==
    LET w == [calendar |-> cal,
              state |-> [view |-> cal.view, currentDate |-> cal.date,
                         events |-> [ref |-> 0, items |-> <<>>],
                         selectedEvent |-> Null, selectedDate |-> Null,
                         loading |-> FALSE, error |-> Null, config |-> config],
              subscribers |-> <<>>, subscriberIds |-> Null,
              events |-> bus.events, wildcardHandlers |-> bus.wildcardHandlers,
              nextSub |-> bus.nextSub, trace |-> <<>>, ret |-> Undefined,
              thrown |-> FALSE, refs |-> {0}, self |-> 0, heap |-> <<>>,
              promises |-> NoPromises, component |-> NoComponent,
              objects |-> (0 :> [view |-> cal.view, currentDate |-> cal.date,
                                 events |-> [ref |-> 0, items |-> <<>>],
                                 selectedEvent |-> Null, selectedDate |-> Null,
                                 loading |-> FALSE, error |-> Null, config |-> config])]
    IN _syncEventsFromCore(w, TRUE, FALSE)

(***************************************************************************)
(* ForceCalendar (src/src/components/ForceCalendar.js) on BaseComponent    *)
(* (its class follows StateManager in src/src/core/StateManager.js).       *)
(* w.component holds the element's fields and what its shadow tree shows:  *)
(*   currentView      this.currentView (Null until loadView)               *)
(*   instance         this._currentViewInstance: Null or Some(renderer id) *)
(*   viewUnsubscribe  this._viewUnsubscribe: Null, or Some(id) for the     *)
(*                    function that unsubscribes the callback of renderer  *)
(*                    id                                                   *)
(*   renderers        the renderer objects: id -> [viewType, container]    *)
(*   listening        the renderers that hold DOM listeners                *)
(*   panel            what template() produced: "error", "loading", "view" *)
(*   container        the #calendar-view-container element of the tree,    *)
(*                    Null when the tree has none                          *)
(*   painted          container.children.length > 0                        *)
(*   peer             a second ForceCalendar element of the page, with a   *)
(*                    store of its own: "new", "connected" or "destroyed"  *)
(***************************************************************************)
\* the least identity not in use
Fresh(used) == CHOOSE n \in 1..(Cardinality(used) + 1) :
                   n \notin used /\ \A m \in 1..(n - 1) : m \in used

RendererOf(callback) == CHOOSE n \in DOMAIN ViewCallbacks : ViewCallbacks[n] = callback

\* the renderers whose callback the store holds
SubscribedViews(w) ==
    {n \in DOMAIN ViewCallbacks : Contains(w.subscribers, ViewCallbacks[n])}

\* cleanup() of renderer n: its DOM listeners are removed
rendererCleanup(w, n) ==
    Log([w EXCEPT !.component.listening = @ \ {n}],
        [k |-> "dispose", renderer |-> n])

\* render() of renderer n (_createViewRenderer): it drops its listeners,
\* writes the view into its container and attaches its listeners again.
\* What it writes is visible when its container is the one of the tree.
rendererRender(w, n) ==
    LET visible == w.component.container = Some(w.component.renderers[n].container)
    IN Log([w EXCEPT !.component.listening = @ \cup {n},
                     !.component.painted = @ \/ visible],
           [k |-> "paint", renderer |-> n, visible |-> visible,
            viewType |-> w.component.renderers[n].viewType])

\* the callback afterRender subscribes for the renderer it created
viewCallback(w, callback, newState, oldState) ==
    IF \/ Field(newState, "events") # Field(oldState, "events")
       \/ Field(newState, "currentDate") # Field(oldState, "currentDate")
    THEN rendererRender(w, RendererOf(callback))
    ELSE w

\* A cleanup of the previous view that leaves its callback subscribed.
cleanupPrevious_keepSubscription(w) ==
    IF w.component.instance = Null THEN w
    ELSE rendererCleanup(w, w.component.instance[1])

\* if (this._viewUnsubscribe) { this._viewUnsubscribe(); this._viewUnsubscribe = null; }
unsubscribeView(w) ==
    IF w.component.viewUnsubscribe = Null THEN w
    ELSE [unsubscribe(w, ViewCallbacks[w.component.viewUnsubscribe[1]], Null)
             EXCEPT !.component.viewUnsubscribe = Null]

\* afterRender: "Clean up previous view if exists"
cleanupPrevious(w) ==
    IF w.component.instance = Null THEN w
    ELSE unsubscribeView(rendererCleanup(w, w.component.instance[1]))

\* afterRender: the renderer for this.currentView is created, rendered into
\* the container and subscribed to the store. The entry logged for the
\* creation tells which renderers hold listeners and which view callbacks
\* the store holds at that moment.
createView(w, n) ==
    LET made == Log([w EXCEPT !.component.instance = Some(n),
                              !.component.renderers =
                                  (n :> [viewType |-> w.component.currentView[1],
                                         container |-> w.component.container[1]]) @@ @],
                    [k |-> "construct", renderer |-> n,
                     listening |-> w.component.listening,
                     subscribed |-> SubscribedViews(w)])
    IN [subscribe(rendererRender(made, n), ViewCallbacks[n], Null)
           EXCEPT !.component.viewUnsubscribe = Some(n)]

\* the identities of the renderers that are still referred to
RenderersInUse(w) ==
    w.component.listening
        \cup {w.component.instance[i] : i \in DOMAIN w.component.instance}
        \cup SubscribedViews(w)

\* ForceCalendar.afterRender, as far as the view renderer goes
afterRender(w) ==
    IF w.component.container = Null \/ w.component.currentView = Null
    THEN w
    ELSE IF /\ w.component.instance # Null
            /\ w.component.renderers[w.component.instance[1]].viewType
                   = w.component.currentView[1]
            /\ w.component.painted
    THEN w
    ELSE createView(cleanupPrevious(w), Fresh(RenderersInUse(w)))

\* A template without the error panel.
template_noErrorPanel(st) == IF st.loading THEN "loading" ELSE "view"

\* ForceCalendar.template: the error panel, or the header with the loading
\* indicator or the view container
template(st) ==
    IF st.error # Null THEN "error"
    ELSE IF st.loading THEN "loading"
    ELSE "view"

\* this._contentWrapper.innerHTML = template: the tree is replaced, and with
\* it the view container, which is a new and empty element
replaceContent(w, panel) ==
    Log([w EXCEPT !.component.panel = panel,
                  !.component.container =
                      IF panel = "view"
                      THEN Some(Fresh({w.component.renderers[n].container :
                                          n \in DOMAIN w.component.renderers}))
                      ELSE Null,
                  !.component.painted = FALSE],
        [k |-> "render", panel |-> panel])

\* BaseComponent.render
render(w) == afterRender(replaceContent(w, template(w.state)))

\* ForceCalendar.handleStateChange
handleStateChange(w, newState, oldState) ==
    render(IF Field(newState, "view") # Field(oldState, "view")
           THEN [w EXCEPT !.component.currentView = Some(newState.view)]
           ELSE w)

\* The arrow functions setupEventListeners registers, per element: each one
\* re-emits what it receives as a DOM event of its element.
Elements == {"A", "B"}
ElementHandlers ==
    [A |-> [navigate |-> "A.navigate", viewChange |-> "A.view-change",
            event |-> "A.event", dateSelect |-> "A.date-select"],
     B |-> [navigate |-> "B.navigate", viewChange |-> "B.view-change",
            event |-> "B.event", dateSelect |-> "B.date-select"]]
HandlersOf(element) ==
    {ElementHandlers[element][f] : f \in DOMAIN ElementHandlers[element]}

\* ForceCalendar.setupEventListeners of the given element, on the singleton bus
setupEventListeners(w, element) ==
    on(on(on(on(w, P_navigation_star, ElementHandlers[element].navigate, FALSE, 0),
             T_view_changed, ElementHandlers[element].viewChange, FALSE, 0),
          P_event_star, ElementHandlers[element].event, FALSE, 0),
       T_date_selected, ElementHandlers[element].dateSelect, FALSE, 0)

\* ForceCalendar.initialize, after new StateManager(config)
initialize(w) == setupEventListeners(subscribe(w, HandleStateChange, Null), "A")

loadView(w, viewType) ==
    render([w EXCEPT !.component.currentView = Some(viewType)])

\* ForceCalendar.mount: super.mount() renders, then the view is loaded
mount(w) == loadView(render(w), w.state.view)

\* BaseComponent.connectedCallback, the first time
connectedCallback(w) == mount(initialize(w))

\* ForceCalendar.destroy
ForceCalendar_destroy(w) == clear(destroy(w))

\* connectedCallback and destroy of the second element, as far as the bus
\* goes: its store and its tree are its own
peerConnected(w) ==
    [setupEventListeners(w, "B") EXCEPT !.component.peer = "connected"]
peerDestroyed(w) == [clear(w) EXCEPT !.component.peer = "destroyed"]

(***************************************************************************)
(* Overlap layout (src/unnamed/part_003, BaseViewRenderer). A Date is a    *)
(* count of minutes from midnight of the day laid out; a day has           *)
(* MinutesPerDay minutes.                                                  *)
(***************************************************************************)
MinutesPerDay == 4

\* date.getHours() * 60 + date.getMinutes()
minuteOfDay(date) == date % MinutesPerDay

Max(a, b) == IF a >= b THEN a ELSE b

\* An entry whose end is not widened to one minute after its start.
toEntry_notWidened(evt) ==
    [id |-> evt.id,
     startMin |-> minuteOfDay(evt.start),
     endMin |-> minuteOfDay(evt.end)]

\* events.map(evt => ({ id, startMin, endMin }))
toEntry(evt) ==
    [id |-> evt.id,
     startMin |-> minuteOfDay(evt.start),
     endMin |-> Max(minuteOfDay(evt.start) + 1, minuteOfDay(evt.end))]

\* A comparison by start minute alone.
compareEntries_byStart(a, b) == a.startMin - b.startMin

\* (a, b) => a.startMin - b.startMin || (b.endMin - b.startMin) - (a.endMin - a.startMin)
compareEntries(a, b) ==
    IF a.startMin - b.startMin # 0 THEN a.startMin - b.startMin
    ELSE (b.endMin - b.startMin) - (a.endMin - a.startMin)

\* entries.sort(compareEntries): a stable sort
RECURSIVE sortEntries(_)
sortEntries(entries) ==
    IF entries = <<>> THEN <<>>
    ELSE LET front == sortEntries(SubSeq(entries, 1, Len(entries) - 1))
             last == entries[Len(entries)]
             pos == Cardinality({i \in DOMAIN front : compareEntries(front[i], last) <= 0})
         IN SubSeq(front, 1, pos) \o <<last>> \o SubSeq(front, pos + 1, Len(front))

\* A search that never finds a column to use again.
firstFree_none(columns, startMin) == 0

\* the first column (1-based) whose last event has ended by startMin; 0 if none
firstFree(columns, startMin) ==
    IF \E col \in DOMAIN columns : columns[col] <= startMin
    THEN CHOOSE col \in DOMAIN columns :
            /\ columns[col] <= startMin
            /\ \A c \in 1..(col - 1) : columns[c] > startMin
    ELSE 0

\* the greedy loop: columns[col] is the end of the last event of the column
RECURSIVE assignColumns(_, _, _, _)
assignColumns(entries, i, columns, layout) ==
    IF i > Len(entries) THEN layout
    ELSE IF firstFree(columns, entries[i].startMin) > 0
    THEN assignColumns(entries, i + 1,
                       [columns EXCEPT ![firstFree(columns, entries[i].startMin)] =
                                           entries[i].endMin],
                       SetKey(layout, entries[i].id,
                              [column |-> firstFree(columns, entries[i].startMin) - 1,
                               totalColumns |-> 0]))
    ELSE assignColumns(entries, i + 1, Append(columns, entries[i].endMin),
                       SetKey(layout, entries[i].id,
                              [column |-> Len(columns), totalColumns |-> 0]))

\* the walk that cuts the sorted entries into groups
RECURSIVE groupEntries(_, _, _, _, _)
groupEntries(entries, i, groups, currentGroup, groupEnd) ==
    IF i > Len(entries)
    THEN IF Len(currentGroup) > 0 THEN Append(groups, currentGroup) ELSE groups
    ELSE IF Len(currentGroup) = 0 \/ entries[i].startMin < groupEnd
    THEN groupEntries(entries, i + 1, groups, Append(currentGroup, entries[i]),
                      Max(groupEnd, entries[i].endMin))
    ELSE groupEntries(entries, i + 1, Append(groups, currentGroup), <<entries[i]>>,
                      entries[i].endMin)

\* A totalColumns that counts the events of the group.
maxCol_groupSize(layout, group) == Len(group)

\* Math.max(...group.map(e => layout.get(e.id).column)) + 1
maxCol(layout, group) ==
    1 + CHOOSE m \in {layout[group[k].id].column : k \in DOMAIN group} :
            \A k \in DOMAIN group : layout[group[k].id].column <= m

\* for (const group of groups) ...: totalColumns of every member
RECURSIVE setTotalColumns(_, _, _)
setTotalColumns(layout, groups, g) ==
    IF g > Len(groups) THEN layout
    ELSE setTotalColumns(
             [id \in DOMAIN layout |->
                 IF \E k \in DOMAIN groups[g] : groups[g][k].id = id
                 THEN [layout[id] EXCEPT !.totalColumns = maxCol(layout, groups[g])]
                 ELSE layout[id]],
             groups, g + 1)

layoutOf(entries) ==
    setTotalColumns(assignColumns(entries, 1, <<>>, EmptyMap),
                    groupEntries(entries, 1, <<>>, <<>>, 0), 1)

computeOverlapLayout(evts) ==
    IF Len(evts) = 0 THEN EmptyMap
    ELSE layoutOf(sortEntries([i \in DOMAIN evts |-> toEntry(evts[i])]))

(***************************************************************************)
(* The state machine                                                       *)
(***************************************************************************)
Heap == [calendar |-> calendar, state |-> state, subscribers |-> subscribers,
         subscriberIds |-> subscriberIds, events |-> events,
         wildcardHandlers |-> wildcardHandlers, component |-> component]

\* The world a call starts in. Object identities are local to a call: the
\* object this.state refers to when the call starts is object 0.
World == [calendar |-> calendar, state |-> state, subscribers |-> subscribers,
          subscriberIds |-> subscriberIds, events |-> events,
          wildcardHandlers |-> wildcardHandlers, nextSub |-> nextSub,
          trace |-> <<>>, ret |-> Undefined, thrown |-> FALSE,
          refs |-> IF "events" \in DOMAIN state THEN {state.events.ref} ELSE {},
          self |-> 0, objects |-> (0 :> state),
          heap |-> <<>>, promises |-> promises, component |-> component]

\* The call `name(args)` ran from the current state and left the world w.
Commit(name, args, w) ==
    /\ calendar' = w.calendar
    /\ state' = w.state
    /\ subscribers' = w.subscribers
    /\ subscriberIds' = w.subscriberIds
    /\ events' = w.events
    /\ wildcardHandlers' = w.wildcardHandlers
    /\ nextSub' = w.nextSub
    /\ op' = [name |-> name, args |-> args]
    /\ pre' = Heap
    /\ trace' = w.trace
    /\ ret' = w.ret
    /\ objects' = w.objects
    /\ heap' = w.heap
    /\ promises' = w.promises
    /\ component' = w.component
    /\ thrown' = w.thrown

Config == [locale |-> "en-US"]

\* The engine as the constructor finds it: empty, or with an event pre-loaded.
InitialCalendars ==
    {[events |-> evs, view |-> "month", date |-> Today] :
        evs \in {<<>>, <<[id |-> "1", title |-> "a"]>>}}

\* The program once the constructor has left the world w.
Constructed(w) ==
    /\ calendar = w.calendar
    /\ state = w.state
    /\ subscribers = w.subscribers
    /\ subscriberIds = w.subscriberIds
    /\ events = w.events
    /\ wildcardHandlers = w.wildcardHandlers
    /\ nextSub = w.nextSub
    /\ op = [name |-> "constructor", args |-> <<>>]
    /\ pre = [calendar |-> w.calendar, state |-> w.state, subscribers |-> <<>>,
              subscriberIds |-> Null, events |-> w.events,
              wildcardHandlers |-> w.wildcardHandlers, component |-> NoComponent]
    /\ trace = w.trace
    /\ ret = Undefined
    /\ objects = w.objects
    /\ heap = <<>>
    /\ promises = w.promises
    /\ component = w.component
    /\ thrown = w.thrown

Init ==
    \E cal \in InitialCalendars :
        Constructed(constructor([events |-> EmptyMap, wildcardHandlers |-> <<>>,
                                 nextSub |-> 1], cal, Config))

\* ---- EventBus calls ----
On(eventName, handler, priority) ==
    /\ nextSub <= MaxSubs
    /\ Commit("on", <<eventName, handler, priority>>,
              on(World, eventName, handler, FALSE, priority))

\* once(eventName, handler, options) is on(eventName, handler, {...options, once: true})
Once(eventName, handler, priority) ==
    /\ nextSub <= MaxSubs
    /\ Commit("once", <<eventName, handler, priority>>,
              on(World, eventName, handler, TRUE, priority))

\* calling the function the id-th on()/once() call returned
UnsubscribeFn(id) == Commit("unsubscribeFn", <<id>>, unsubscribeFn(World, id))

Off(eventName, handler) == Commit("off", <<eventName, handler>>, off(World, eventName, handler))
OffWildcard(pattern) == Commit("offWildcard", <<pattern>>, offWildcard(World, pattern))
OffAll(handler) == Commit("offAll", <<handler>>, offAll(World, handler))
Clear == Commit("clear", <<>>, clear(World))

Payload == [tag |-> "payload"]
Emit(eventName) == Commit("emit", <<eventName>>, emit(World, eventName, Payload))

\* ---- StateManager calls ----
AddEvent(event, ok) == Commit("addEvent", <<event>>, addEvent(World, event, ok))
UpdateEvent(eventId, updates, ok) ==
    Commit("updateEvent", <<eventId, updates>>, updateEvent(World, eventId, updates, ok))
DeleteEvent(eventId) == Commit("deleteEvent", <<eventId>>, deleteEvent(World, eventId))
SyncEvents == Commit("syncEvents", <<>>, syncEvents(World))
Subscribe(callback) == Commit("subscribe", <<callback>>, subscribe(World, callback, Null))
Unsubscribe(callback) == Commit("unsubscribe", <<callback>>, unsubscribe(World, callback, Null))
SetView(view, strict) == Commit("setView", <<view>>, setView(World, view, strict))
SetDate(date) == Commit("setDate", <<date>>, setDate(World, date))
GoToDate(date) == Commit("goToDate", <<date>>, goToDate(World, date))
NextPeriod == calendar.date < MaxDate /\ Commit("next", <<>>, next(World))
PreviousPeriod == calendar.date > 1 /\ Commit("previous", <<>>, previous(World))
GoToday == Commit("today", <<>>, today(World))
SelectEvent(event) == Commit("selectEvent", <<event>>, selectEvent(World, event))
SelectEventById(eventId) == Commit("selectEventById", <<eventId>>, selectEventById(World, eventId))
DeselectEvent == Commit("deselectEvent", <<>>, deselectEvent(World))
SelectDate(date) == Commit("selectDate", <<date>>, selectDate(World, date))
DeselectDate == Commit("deselectDate", <<>>, deselectDate(World))
SetLoading(loading) == Commit("setLoading", <<loading>>, setLoading(World, loading))
SetError(error) == Commit("setError", <<error>>, setError(World, error))
ClearError == Commit("clearError", <<>>, clearError(World))
ComputeOverlapLayout(evts) ==
    Commit("computeOverlapLayout", <<evts>>,
           Return(World, "layout", computeOverlapLayout(evts)))
MatchesPattern(eventName, pattern) ==
    Commit("matchesPattern", <<eventName, pattern>>,
           Return(World, "boolean", matchesPattern(eventName, pattern)))
SubscribeAs(callback, subscriberId) ==
    Commit("subscribe", <<callback, subscriberId>>, subscribe(World, callback, Some(subscriberId)))
UnsubscribeAs(callback, subscriberId) ==
    Commit("unsubscribe", <<callback, subscriberId>>,
           unsubscribe(World, callback, Some(subscriberId)))
UnsubscribeById(subscriberId) ==
    Commit("unsubscribeById", <<subscriberId>>, unsubscribeById(World, subscriberId))
Destroy == Commit("destroy", <<>>, destroy(World))
\* A method that starts with a call on this.calendar, after destroy: the call
\* on null raises TypeError before anything else is done.
UseAfterDestroy(name) ==
    /\ calendar = Released
    /\ Commit(name, <<>>, [World EXCEPT !.thrown = TRUE])

\* ---- ForceCalendar calls ----
Mounted == component.panel # "none"
Connect ==
    /\ ~Mounted
    /\ Commit("connectedCallback", <<"A">>, Void(connectedCallback(World)))
DestroyElement ==
    /\ Mounted
    /\ Commit("ForceCalendar.destroy", <<"A">>, Void(ForceCalendar_destroy(World)))
ConnectPeer ==
    /\ component.peer = "new"
    /\ Commit("connectedCallback", <<"B">>, Void(peerConnected(World)))
DestroyPeer ==
    /\ component.peer = "connected"
    /\ Commit("ForceCalendar.destroy", <<"B">>, Void(peerDestroyed(World)))

\* setState is public (the constructor binds it): a caller may hand it any patch.
\* The structures the engine may hold when getViewData is called: a month
\* grid, a flat day sequence, a single day; a day entry comes with its events
\* (possibly none) or without the field.
ViewShapes(first, second, evs) ==
    <<
      <<[weeks |-> 2], <<3, 4>>, [days |-> 5], [days |-> 6], <<7>>, <<8>>,
        [date |-> first, events |-> evs], [date |-> second]>>,
      <<[days |-> 2], <<3, 4>>, [date |-> first], [date |-> second, events |-> evs]>>,
      <<[date |-> first]>>,
      <<[date |-> first, events |-> evs]>>
    >>
GetViewData(shape, first, second, evs) ==
    Commit("getViewData", <<shape, first, second, evs>>,
           getViewData([World EXCEPT !.heap = ViewShapes(first, second, evs)[shape]]))

GetState ==
    Commit("getState", <<>>,
           getState([World EXCEPT !.heap = StoreObjects(state, calendar)]))
GetEvents(own) ==
    Commit("getEvents", <<own>>,
           getEvents([World EXCEPT !.heap = StoreObjects(state, calendar)], own))

\* The caller edits what the last getState or getEvents call returned: it
\* adds, removes or replaces an element of the events array, or sets or
\* deletes a key of the config. An edit of an object the store or the engine
\* holds is an edit of their state.
MaxEvents == 2
ArrayEdits == {"push", "pop", "replace"}
ObjectEdits == {"set", "delete"}
EditedEvent == [id |-> "9", title |-> "z"]
Edit(kind, value) ==
    CASE kind = "push" -> Append(value, EditedEvent)
      [] kind = "pop" -> SubSeq(value, 1, Len(value) - 1)
      [] kind = "replace" -> [i \in DOMAIN value |-> IF i = 1 THEN EditedEvent ELSE value[i]]
      [] kind = "set" -> [value EXCEPT !.locale = "zz"]
      [] kind = "delete" -> [k \in DOMAIN value \ {"locale"} |-> value[k]]
EditTarget(kind) ==
    IF ret[1] = "events" THEN ret[2]
    ELSE IF kind \in ArrayEdits THEN heap[ret[2]].events ELSE heap[ret[2]].config
Written(target, value) ==
    /\ heap' = [heap EXCEPT ![target] = value]
    /\ state' = IF target = StateEvents THEN [state EXCEPT !.events.items = value]
                ELSE IF target = StateConfig THEN [state EXCEPT !.config = value]
                ELSE state
    /\ calendar' = IF target = CoreEvents THEN [calendar EXCEPT !.events = value]
                   ELSE calendar
EditReturned(kind) ==
    /\ op.name \in {"getState", "getEvents"}
    /\ ret[1] = "events" => kind \in ArrayEdits
    /\ kind \in {"pop", "replace"} => heap[EditTarget(kind)] # <<>>
    /\ kind = "push" => Len(heap[EditTarget(kind)]) < MaxEvents
    /\ Written(EditTarget(kind), Edit(kind, heap[EditTarget(kind)]))
    /\ op' = [name |-> "edit", args |-> <<kind>>]
    /\ pre' = Heap
    /\ trace' = <<>>
    /\ ret' = Undefined
    /\ objects' = (0 :> state')
    /\ thrown' = FALSE
    /\ UNCHANGED <<subscribers, subscriberIds, events, wildcardHandlers, nextSub,
                   promises, component>>

\* The promise the i-th collected handler result refers to settles. The
\* completion of emit follows Promise.all(promises) and, once settled, stays.
Settled(i, outcome) ==
    /\ i \in DOMAIN promises.results
    /\ promises.results[i] = "pending"
    /\ promises' = [results |-> [promises.results EXCEPT ![i] = outcome],
                    completion |-> IF promises.completion # "pending"
                                   THEN promises.completion
                                   ELSE PromiseAll([promises.results EXCEPT ![i] = outcome])]
    /\ op' = [name |-> "settled", args |-> <<i, outcome>>]
    /\ pre' = Heap
    /\ trace' = <<>>
    /\ ret' = Undefined
    /\ thrown' = FALSE
    /\ UNCHANGED <<calendar, state, subscribers, subscriberIds, events,
                   wildcardHandlers, nextSub, objects, heap, component>>

returnState(w) == Return(w, "state", w.state)
SetState(updates, silent) ==
    Commit("setState", <<updates, silent>>, returnState(setState(World, updates, silent)))

\* ---- the engine modified directly, behind the store's back ----
CoreAddEvent(event) ==
    Commit("calendar.addEvent", <<event>>,
           [World EXCEPT !.calendar = coreAddEvent(@, event, TRUE).cal])
CoreUpdateEvent(eventId, updates) ==
    Commit("calendar.updateEvent", <<eventId, updates>>,
           [World EXCEPT !.calendar = coreUpdateEvent(@, eventId, updates, TRUE).cal])
CoreRemoveEvent(eventId) ==
    Commit("calendar.removeEvent", <<eventId>>,
           [World EXCEPT !.calendar = coreRemoveEvent(@, eventId).cal])

EventInputs == [id : EventIds, title : Titles]
UpdateInputs == [title : Titles]

\* Event CRUD through the store, with observers coming and going.
CrudCalls ==
    \/ \E event \in EventInputs, ok \in BOOLEAN : AddEvent(event, ok)
    \/ \E eventId \in EventIds, updates \in UpdateInputs, ok \in BOOLEAN :
          UpdateEvent(eventId, updates, ok)
    \/ \E eventId \in EventIds : DeleteEvent(eventId)

ObserverCalls ==
    \/ \E callback \in Callbacks : Subscribe(callback)
    \/ \E callback \in Callbacks : Unsubscribe(callback)

\* A component listening to everything the bus carries.
P_star == <<"*">>
ListenerCalls == \E handler \in Handlers : On(P_star, handler, 0)

Next == CrudCalls \/ ObserverCalls \/ ListenerCalls
Spec == Init /\ [][Next]_vars

\* Raising handlers and callbacks among the observers of one event.
FaultEvent == [id |-> "1", title |-> "a"]
FaultTopics == {T_event_add, P_event_star}
FaultCalls ==
    \/ \E eventName \in FaultTopics, handler \in Handlers : On(eventName, handler, 0)
    \/ \E eventName \in FaultTopics, handler \in Handlers : Once(eventName, handler, 0)
    \/ \E callback \in Callbacks : Subscribe(callback)
    \/ Emit(T_event_add)
    \/ \E ok \in BOOLEAN : AddEvent(FaultEvent, ok)
    \/ DeleteEvent(FaultEvent.id)

NextFault == FaultCalls
SpecFault == Init /\ [][NextFault]_vars

\* The same store when the engine is also modified directly.
DirectCalls ==
    \/ \E event \in EventInputs : CoreAddEvent(event)
    \/ \E eventId \in EventIds, updates \in UpdateInputs : CoreUpdateEvent(eventId, updates)
    \/ \E eventId \in EventIds : CoreRemoveEvent(eventId)
    \/ SyncEvents

NextDirect == CrudCalls \/ ObserverCalls \/ DirectCalls
SpecDirect == Init /\ [][NextDirect]_vars

\* The bus on its own.
BusTopics == {T_event_add, P_event_star}
BusCalls ==
    \/ \E eventName \in BusTopics, handler \in Handlers, priority \in Priorities :
          On(eventName, handler, priority)
    \/ \E eventName \in BusTopics, handler \in Handlers, priority \in Priorities :
          Once(eventName, handler, priority)
    \/ \E id \in 1..MaxSubs : id < nextSub /\ UnsubscribeFn(id)
    \/ \E eventName \in BusTopics, handler \in Handlers : Off(eventName, handler)
    \/ OffWildcard(P_event_star)
    \/ \E handler \in Handlers : OffAll(handler)
    \/ Clear
    \/ \E eventName \in {T_event_add, T_event_added, T_state_changed} : Emit(eventName)

NextBus == BusCalls
SpecBus == Init /\ [][NextBus]_vars

\* Every kind of state-changing call of the store on one event, with direct
\* subscribers.
StoreEvent == [id |-> "1", title |-> "a"]
StoreCalls ==
    \/ \E ok \in BOOLEAN : AddEvent(StoreEvent, ok)
    \/ \E updates \in UpdateInputs, ok \in BOOLEAN : UpdateEvent(StoreEvent.id, updates, ok)
    \/ DeleteEvent(StoreEvent.id)
    \/ \E callback \in Callbacks : Subscribe(callback)
    \/ \E view \in Views : SetView(view, FALSE)
    \/ \E date \in Dates : SetDate(date)
    \/ \E date \in Dates : GoToDate(date)
    \/ NextPeriod
    \/ PreviousPeriod
    \/ GoToday
    \/ SelectEvent(StoreEvent)
    \/ SelectEventById(StoreEvent.id)
    \/ DeselectEvent
    \/ \E date \in Dates : SelectDate(date)
    \/ DeselectDate
    \/ \E error \in {Null, Some("boom")} : SetError(error)
    \/ ClearError

NextStore == StoreCalls
SpecStore == Init /\ [][NextStore]_vars

\* View and date navigation, also with a view name the engine does not know.
UnknownView == "year"
NavCalls ==
    \/ \E view \in Views \cup {UnknownView}, strict \in BOOLEAN : SetView(view, strict)
    \/ \E date \in Dates : SetDate(date)
    \/ \E date \in Dates : GoToDate(date)
    \/ NextPeriod
    \/ PreviousPeriod
    \/ GoToday
    \/ \E callback \in Callbacks : Subscribe(callback)

NextNav == NavCalls
SpecNav == Init /\ [][NextNav]_vars

\* View data under changing selection and events.
MaxInstant == 3
Instants == 0..MaxInstant
ViewCalls ==
    \/ \E shape \in 1..4, first \in Instants, second \in Instants,
          evs \in {<<>>, <<StoreEvent>>} :
            GetViewData(shape, first, second, evs)
    \/ \E date \in Instants : SelectDate(date)
    \/ DeselectDate
    \/ AddEvent(StoreEvent, TRUE)
    \/ DeleteEvent(StoreEvent.id)

NextView == ViewCalls
SpecView == Init /\ [][NextView]_vars

\* Snapshots handed out and edited by the caller.
SnapshotCalls ==
    \/ GetState
    \/ \E own \in BOOLEAN : GetEvents(own)
    \/ \E kind \in ArrayEdits \cup ObjectEdits : EditReturned(kind)
    \/ AddEvent(StoreEvent, TRUE)
    \/ DeleteEvent(StoreEvent.id)

NextSnapshot == SnapshotCalls
SpecSnapshot == Init /\ [][NextSnapshot]_vars

\* Handlers with deferred results.
AsyncTopics == {T_event_add, P_event_star}
AsyncCalls ==
    \/ \E eventName \in AsyncTopics, handler \in AsyncHandlers \cup {"h1"} :
          On(eventName, handler, 0)
    \/ \E id \in 1..MaxSubs : id < nextSub /\ UnsubscribeFn(id)
    \/ Emit(T_event_add)
    \/ \E i \in 1..MaxSubs, outcome \in {"fulfilled", "rejected"} : Settled(i, outcome)

NextAsync == AsyncCalls
SpecAsync == Init /\ [][NextAsync]_vars

\* A store that is destroyed and used afterwards. The callbacks subscribed
\* after destroy are other functions than those subscribed before.
LateCallbacks == {"late"}
SubscriberNames == {"month-view"}
DestroyCalls ==
    \/ \E callback \in Callbacks : calendar # Released /\ Subscribe(callback)
    \/ \E callback \in Callbacks, subscriberId \in SubscriberNames :
          calendar # Released /\ SubscribeAs(callback, subscriberId)
    \/ \E callback \in Callbacks : calendar # Released /\ Unsubscribe(callback)
    \/ \E callback \in LateCallbacks : calendar = Released /\ Subscribe(callback)
    \/ \E date \in Dates : SelectDate(date)
    \/ DeselectDate
    \/ \E loading \in BOOLEAN : SetLoading(loading)
    \/ calendar # Released /\ AddEvent(StoreEvent, TRUE)
    \/ calendar # Released /\ DeleteEvent(StoreEvent.id)
    \/ \E name \in {"addEvent", "deleteEvent"} : UseAfterDestroy(name)
    \/ Destroy

NextDestroy == DestroyCalls
SpecDestroy == Init /\ [][NextDestroy]_vars

\* A mounted ForceCalendar element whose store is driven through every kind
\* of state change.
ControlCalls ==
    \/ Connect
    \/ \E view \in Views : Mounted /\ SetView(view, FALSE)
    \/ \E date \in Dates : Mounted /\ SetDate(date)
    \/ Mounted /\ AddEvent(StoreEvent, TRUE)
    \/ Mounted /\ DeleteEvent(StoreEvent.id)
    \/ \E date \in Dates : Mounted /\ SelectDate(date)
    \/ Mounted /\ DeselectDate
    \/ \E loading \in BOOLEAN : Mounted /\ SetLoading(loading)
    \/ \E error \in {Null, Some("boom")} : Mounted /\ SetError(error)
    \/ Mounted /\ ClearError

NextControl == ControlCalls
SpecControl == Init /\ [][NextControl]_vars

\* Two ForceCalendar elements on one page: the store of the first, and the
\* bus both of them use.
InstanceCalls ==
    \/ Connect
    \/ ConnectPeer
    \/ DestroyPeer
    \/ DestroyElement
    \/ \E view \in Views : Mounted /\ calendar # Released /\ SetView(view, FALSE)
    \/ Mounted /\ calendar # Released /\ NextPeriod
    \/ Mounted /\ calendar # Released /\ AddEvent(StoreEvent, TRUE)
    \/ \E date \in Dates : Mounted /\ calendar # Released /\ SelectDate(date)

NextInstances == InstanceCalls
SpecInstances == Init /\ [][NextInstances]_vars

\* A store with a subscriber that calls the store while it is notified.
ReentrantCalls ==
    \/ \E callback \in ReentrantCallbacks \cup Callbacks : Subscribe(callback)
    \/ \E callback \in ReentrantCallbacks \cup Callbacks : Unsubscribe(callback)
    \/ \E loading \in BOOLEAN : SetLoading(loading)
    \/ \E date \in Dates : SelectDate(date)
    \/ \E view \in Views : SetView(view, FALSE)

NextReentrant == ReentrantCalls
SpecReentrant == Init /\ [][NextReentrant]_vars

\* A bus with one-shot subscriptions and a handler that emits event:added
\* while event:add is being delivered.
RelayCalls ==
    \/ \E eventName \in {P_event_star, T_event_add, T_event_added},
          handler \in RelayHandlers \cup Handlers : On(eventName, handler, 0)
    \/ \E eventName \in {P_event_star, T_event_added}, handler \in Handlers :
          Once(eventName, handler, 0)
    \/ \E eventName \in {T_event_add, T_event_added} : Emit(eventName)
    \/ Clear

\* A bus whose handlers subscribe and unsubscribe while an emit is under way.
ChangingCalls ==
    \/ \E eventName \in {T_event_add, P_event_star},
          handler \in AddingHandlers \cup RemovingHandlers \cup {"h1"} :
          On(eventName, handler, 0)
    \/ \E id \in 1..MaxSubs : id < nextSub /\ UnsubscribeFn(id)
    \/ \E eventName \in {T_event_add, T_event_added} :
          nextSub <= MaxSubs + 1 /\ Emit(eventName)

NextChanging == ChangingCalls
SpecChanging == Init /\ [][NextChanging]_vars

NextRelay == RelayCalls
SpecRelay == Init /\ [][NextRelay]_vars

\* matchesPattern on every topic and every pattern of up to MaxLen
\* characters: letters, the dot and, in patterns, the star. The function is
\* pure: one call per behaviour.
MaxLen == 3
TopicChars == {"a", "b", "."}
PatternChars == {"a", ".", "*"}
Strings(chars) == UNION {[1..n -> chars] : n \in 0..MaxLen}
MatchCalls ==
    /\ op.name = "constructor"
    /\ \E eventName \in Strings(TopicChars), pattern \in Strings(PatternChars) :
          MatchesPattern(eventName, pattern)

NextMatch == MatchCalls
SpecMatch == Init /\ [][NextMatch]_vars

\* Subscribers that come and go with and without an id.
SubscriberIds == {"month-view", "week-view"}
RegistryCalls ==
    \/ \E callback \in Callbacks : Subscribe(callback)
    \/ \E callback \in Callbacks, subscriberId \in SubscriberIds :
          SubscribeAs(callback, subscriberId)
    \/ \E callback \in Callbacks : Unsubscribe(callback)
    \/ \E callback \in Callbacks, subscriberId \in SubscriberIds :
          UnsubscribeAs(callback, subscriberId)
    \/ \E subscriberId \in SubscriberIds : UnsubscribeById(subscriberId)
    \/ \E loading \in BOOLEAN : SetLoading(loading)

NextRegistry == RegistryCalls
SpecRegistry == Init /\ [][NextRegistry]_vars

\* The selection of an event by id while events are added, updated and
\* deleted.
SelectionCalls ==
    \/ \E event \in EventInputs : AddEvent(event, TRUE)
    \/ \E eventId \in EventIds, updates \in UpdateInputs :
          UpdateEvent(eventId, updates, TRUE)
    \/ \E eventId \in EventIds : DeleteEvent(eventId)
    \/ \E eventId \in EventIds : SelectEventById(eventId)
    \/ DeselectEvent
    \/ \E callback \in Callbacks : Subscribe(callback)

NextSelection == SelectionCalls
SpecSelection == Init /\ [][NextSelection]_vars

\* The layout of every list of timed events of one day with ids from
\* TimedIds: an event starts within the day and ends at its start or later,
\* at most one day later.
TimedIds == <<"a", "b", "c">>
TimedSpans ==
    {span \in [start : 0..(MinutesPerDay - 1), end : 0..(2 * MinutesPerDay - 1)] :
        span.start <= span.end /\ span.end <= span.start + MinutesPerDay}
TimedLists ==
    UNION {[1..n -> TimedSpans] : n \in 0..Len(TimedIds)}
Timed(spans) ==
    [i \in DOMAIN spans |-> [id |-> TimedIds[i], start |-> spans[i].start,
                             end |-> spans[i].end]]
\* The function is pure and keeps nothing: one call per behaviour shows all
\* it can do.
LayoutCalls ==
    /\ op.name = "constructor"
    /\ \E spans \in TimedLists : ComputeOverlapLayout(Timed(spans))

NextLayout == LayoutCalls
SpecLayout == Init /\ [][NextLayout]_vars

\* setState called directly. The patches: no key, one key, two keys; a value
\* the state holds already; the very array the state holds; a new array with
\* the same elements; a new array with other elements.
Patches ==
    <<EmptyMap,
      [loading |-> TRUE],
      [loading |-> FALSE],
      [view |-> "week", loading |-> TRUE],
      [view |-> state.view],
      [events |-> state.events],
      [events |-> [ref |-> FreshRef(World), items |-> state.events.items]],
      [events |-> [ref |-> FreshRef(World), items |-> <<StoreEvent>>], view |-> "month"]>>
StateCalls ==
    \/ \E i \in DOMAIN Patches, silent \in BOOLEAN : SetState(Patches[i], silent)
    \/ \E callback \in Callbacks : Subscribe(callback)
    \/ \E handler \in Handlers : On(P_star, handler, 0)

NextState == StateCalls
SpecState == Init /\ [][NextState]_vars

(***************************************************************************)
(* Reading the trace of the last call                                      *)
(***************************************************************************)
Range(s) == {s[i] : i \in DOMAIN s}
Ids(evs) == {evs[i].id : i \in DOMAIN evs}
HasPrefix(t, prefix) == Len(t) >= Len(prefix) /\ SubSeq(t, 1, Len(prefix)) = prefix
IsStateTopic(t) == HasPrefix(t, StatePrefix)
IsWildcardSub(sub) == "pattern" \in DOMAIN sub

EmitIdx == {i \in DOMAIN trace : trace[i].k = "emit"}
CallIdx == {i \in DOMAIN trace : trace[i].k = "call"}
SubscriberIdx == {i \in DOMAIN trace : trace[i].k = "subscriber"}
KeyEmitIdx == {i \in EmitIdx : IsStateTopic(trace[i].topic) /\ trace[i].topic # T_state_changed}
AggregateIdx == {i \in EmitIdx : trace[i].topic = T_state_changed}
OwnIdx == {i \in EmitIdx : ~IsStateTopic(trace[i].topic)}
AllBefore(A, B) == \A a \in A, b \in B : a < b

\* every publication of the call, and those that are not state:* topics
Published == SelectSeq(trace, LAMBDA e : e.k = "emit")
OwnPublished == SelectSeq(trace, LAMBDA e : e.k = "emit" /\ ~IsStateTopic(e.topic))
Publication(topic, data) == [k |-> "emit", topic |-> topic, data |-> data]
Calls == SelectSeq(trace, LAMBDA e : e.k = "call")
ExactCalls == SelectSeq(trace, LAMBDA e : e.k = "call" /\ ~IsWildcardSub(e.sub))
WildcardCalls == SelectSeq(trace, LAMBDA e : e.k = "call" /\ IsWildcardSub(e.sub))
SubscriberCalls == SelectSeq(trace, LAMBDA e : e.k = "subscriber")

\* what the engine answered to the one mutation the call forwarded to it
CoreAnswers == SelectSeq(trace, LAMBDA e : e.k = "calendar")
CoreAccepted ==
    /\ Len(CoreAnswers) = 1
    /\ IF CoreAnswers[1].method = "removeEvent"
       THEN CoreAnswers[1].answer[2]
       ELSE CoreAnswers[1].answer[2] # Null
CoreRejected ==
    /\ Len(CoreAnswers) = 1
    /\ IF CoreAnswers[1].method = "removeEvent"
       THEN ~CoreAnswers[1].answer[2]
       ELSE CoreAnswers[1].answer[2] = Null

\* the subscriptions of a snapshot: all of them, and those emit(topic) delivers to
ExactSubs(snap) == UNION {Range(snap.events[t]) : t \in DOMAIN snap.events}
AllSubs(snap) == ExactSubs(snap) \cup Range(snap.wildcardHandlers)
MatchingSubs(snap, topic) ==
    (IF topic \in DOMAIN snap.events THEN Range(snap.events[topic]) ELSE {})
        \cup {s \in Range(snap.wildcardHandlers) : matchesPattern(topic, s.pattern)}

\* the handler calls made for the publication at trace index i
CalledFor(i) ==
    {trace[j].sub : j \in {c \in CallIdx : c > i /\ \A e \in EmitIdx : ~(i < e /\ e < c)}}

(***************************************************************************)
(* C1: after every addEvent, updateEvent or deleteEvent call of a sequence *)
(* of such calls, accepted or rejected by the engine, the set of event ids *)
(* in the mirrored state.events equals the set of ids in the engine.       *)
(***************************************************************************)
C1_MirrorConsistency ==
    op.name \in {"addEvent", "updateEvent", "deleteEvent"}
        => Ids(state.events.items) = Ids(calendar.events)

\* an accepted addEvent has brought the mirror to two events
C1_Witness ==
    /\ op.name = "addEvent"
    /\ CoreAccepted
    /\ Cardinality(Ids(state.events.items)) = 2

(***************************************************************************)
(* C2: after a successful updateEvent(id, patch) changing only the title,  *)
(* the mirror is a new array holding the engine's events, the mirrored     *)
(* copy of id carries the patched title, and every direct subscriber was   *)
(* called with that new events value, although the id set did not change.  *)
(***************************************************************************)
C2_UpdateVisibility ==
    (op.name = "updateEvent" /\ CoreAccepted) =>
        /\ \E i \in DOMAIN state.events.items :
              state.events.items[i] = [id |-> op.args[1], title |-> op.args[2].title]
        /\ \A i \in DOMAIN state.events.items :
              state.events.items[i].id = op.args[1]
                  => state.events.items[i].title = op.args[2].title
        /\ state.events.items = calendar.events
        /\ state.events.ref # pre.state.events.ref
        /\ Ids(state.events.items) = Ids(pre.state.events.items)
        /\ [i \in DOMAIN SubscriberCalls |-> SubscriberCalls[i].callback] = pre.subscribers
        /\ \A i \in DOMAIN SubscriberCalls :
              /\ SubscriberCalls[i].newState.events = state.events
              /\ SubscriberCalls[i].oldState.events = pre.state.events

\* a title really changed, with a subscriber watching
C2_Witness ==
    /\ op.name = "updateEvent"
    /\ CoreAccepted
    /\ Len(pre.subscribers) > 0
    /\ \E i \in DOMAIN pre.state.events.items :
          /\ pre.state.events.items[i].id = op.args[1]
          /\ pre.state.events.items[i].title # op.args[2].title

(***************************************************************************)
(* C3: a successful addEvent publishes, besides the state:* topics, exactly*)
(* event:add then event:added, each once and each carrying the event the   *)
(* engine returned; a successful updateEvent event:update then             *)
(* event:updated; a successful deleteEvent event:remove then event:deleted.*)
(***************************************************************************)
C3_CascadeShape ==
    /\ (op.name = "addEvent" /\ CoreAccepted) =>
          OwnPublished = <<Publication(T_event_add, [event |-> CoreAnswers[1].answer[2][1]]),
                           Publication(T_event_added, [event |-> CoreAnswers[1].answer[2][1]])>>
    /\ (op.name = "updateEvent" /\ CoreAccepted) =>
          OwnPublished = <<Publication(T_event_update, [event |-> CoreAnswers[1].answer[2][1]]),
                           Publication(T_event_updated, [event |-> CoreAnswers[1].answer[2][1]])>>
    /\ (op.name = "deleteEvent" /\ CoreAccepted) =>
          OwnPublished = <<Publication(T_event_remove, [eventId |-> op.args[1]]),
                           Publication(T_event_deleted, [eventId |-> op.args[1]])>>

\* an accepted addEvent, published to a listener that raises
C3_Witness ==
    /\ op.name = "addEvent"
    /\ CoreAccepted
    /\ \E i \in CallIdx : trace[i].topic = T_event_added /\ trace[i].sub.handler \in ThrowingHandlers

(***************************************************************************)
(* C4: when the engine rejects addEvent, the call returns null, publishes  *)
(* exactly one topic, event:error, carrying the action and the offending   *)
(* event, calls no subscriber, leaves the state object as it was and throws*)
(* nothing.                                                                *)
(***************************************************************************)
C4_AddRejected ==
    (op.name = "addEvent" /\ CoreRejected) =>
        /\ ret = Result("event", Null)
        /\ Published = <<Publication(T_event_error,
                                     [action |-> "add", event |-> op.args[1],
                                      error |-> "Failed to add event"])>>
        /\ SubscriberIdx = {}
        /\ state = pre.state
        /\ ~thrown

\* a rejected addEvent while a subscriber and a bus listener are registered
C4_Witness ==
    /\ op.name = "addEvent"
    /\ CoreRejected
    /\ Len(pre.subscribers) > 0
    /\ Len(pre.wildcardHandlers) > 0

(***************************************************************************)
(* C5: when the engine rejects updateEvent or deleteEvent, the call returns*)
(* null / false, publishes event:error and no success topic, and the       *)
(* mirrored state is the same after the call as before it, also when the   *)
(* engine's collection was changed directly since the last resync.         *)
(***************************************************************************)
C5_RejectedLeavesState ==
    (op.name \in {"updateEvent", "deleteEvent"} /\ CoreRejected) =>
        /\ ret = IF op.name = "updateEvent" THEN Result("event", Null) ELSE Result("boolean", FALSE)
        /\ Len(OwnPublished) = 1
        /\ OwnPublished[1].topic = T_event_error
        /\ state = pre.state

(***************************************************************************)
(* C6: a bus handler (exact or wildcard) or a direct subscriber that       *)
(* raises stops no other handler of the same delivery pass from being      *)
(* called, and what it raised reaches neither the caller of emit (whose    *)
(* promise is fulfilled) nor the caller of the store's method.             *)
(***************************************************************************)
C6_FaultIsolation ==
    /\ ~thrown
    /\ op.name = "emit" => ret = Result("promise", "fulfilled")
    /\ \A i \in EmitIdx : \A s \in MatchingSubs(pre, trace[i].topic) :
          (~s.once \/ \A e \in EmitIdx : e >= i) => s \in CalledFor(i)
    /\ SubscriberIdx # {} =>
          [i \in DOMAIN SubscriberCalls |-> SubscriberCalls[i].callback] = pre.subscribers

\* a raising handler and a raising callback were each followed by another one
C6_Witness ==
    /\ op.name = "addEvent"
    /\ \E i, j \in SubscriberIdx :
          i < j /\ trace[i].callback \in ThrowingCallbacks
    /\ \E i, j \in CallIdx :
          /\ i < j
          /\ trace[i].topic = trace[j].topic
          /\ trace[i].sub.handler \in ThrowingHandlers

(***************************************************************************)
(* C7: emit(topic) calls the exact-topic handlers registered for the topic *)
(* in descending priority order, and those of equal priority in the order  *)
(* in which they were registered.                                          *)
(***************************************************************************)
C7_PriorityOrder ==
    op.name = "emit" =>
        /\ [i \in DOMAIN ExactCalls |-> ExactCalls[i].sub] =
              (IF op.args[1] \in DOMAIN pre.events THEN pre.events[op.args[1]] ELSE <<>>)
        /\ \A i, j \in DOMAIN ExactCalls :
              i < j =>
                  \/ ExactCalls[i].sub.priority > ExactCalls[j].sub.priority
                  \/ /\ ExactCalls[i].sub.priority = ExactCalls[j].sub.priority
                     /\ ExactCalls[i].sub.id < ExactCalls[j].sub.id

\* the handler registered later was called first, for its higher priority
C7_Witness ==
    /\ op.name = "emit"
    /\ Len(ExactCalls) = 2
    /\ ExactCalls[1].sub.id > ExactCalls[2].sub.id
    /\ ExactCalls[1].sub.priority > ExactCalls[2].sub.priority

(***************************************************************************)
(* C8: emit(topic) calls every matching exact-topic handler before any     *)
(* matching wildcard handler, and the matching wildcard handlers in their  *)
(* registration order, whatever their priority option.                     *)
(***************************************************************************)
C8_ExactBeforeWildcard ==
    op.name = "emit" =>
        /\ \A i, j \in DOMAIN Calls :
              (i < j /\ IsWildcardSub(Calls[i].sub)) => IsWildcardSub(Calls[j].sub)
        /\ \A i, j \in DOMAIN WildcardCalls :
              i < j => WildcardCalls[i].sub.id < WildcardCalls[j].sub.id
        /\ {WildcardCalls[i].sub : i \in DOMAIN WildcardCalls} =
              {s \in Range(pre.wildcardHandlers) : matchesPattern(op.args[1], s.pattern)}

\* two wildcard handlers were called, the one of lower priority first
C8_Witness ==
    /\ op.name = "emit"
    /\ Len(WildcardCalls) = 2
    /\ WildcardCalls[1].sub.priority < WildcardCalls[2].sub.priority

(***************************************************************************)
(* C9: an exact-topic subscription made with once() is delivered at most   *)
(* once and is gone after its first delivery, and its removal removes no   *)
(* other subscription: after emit, every delivered once() subscription is  *)
(* unregistered, and every other subscription registered before the emit   *)
(* is still registered.                                                    *)
(***************************************************************************)
C9_OnceDelivery ==
    op.name = "emit" =>
        LET delivered == {trace[i].sub : i \in CallIdx}
            deliveredOnce == {s \in delivered : s.once}
        IN /\ \A s \in deliveredOnce : s \notin AllSubs(Heap)
           /\ \A s \in AllSubs(pre) \ deliveredOnce : s \in AllSubs(Heap)

(***************************************************************************)
(* C10: within one state transition the notifications come in a fixed      *)
(* order, all before the method returns: every direct subscriber, then one *)
(* state:<key>:changed topic per changed key, then the one state:changed   *)
(* topic, and only then the operation's own topic.                         *)
(***************************************************************************)
C10_CascadeOrder ==
    /\ AllBefore(SubscriberIdx, EmitIdx)
    /\ AllBefore(KeyEmitIdx, AggregateIdx)
    /\ AllBefore(KeyEmitIdx \cup AggregateIdx, OwnIdx)
    /\ Cardinality(AggregateIdx) <= 1
    /\ KeyEmitIdx # {} <=> AggregateIdx # {}
    /\ SubscriberIdx # {} =>
          [i \in DOMAIN SubscriberCalls |-> SubscriberCalls[i].callback] = pre.subscribers
    /\ (Len(pre.subscribers) > 0 /\ state # pre.state) => SubscriberIdx # {}

\* next() with two subscribers: subscribers, the key topic, state:changed, navigation:next
C10_Witness ==
    /\ op.name = "next"
    /\ Cardinality(SubscriberIdx) = 2
    /\ KeyEmitIdx # {}
    /\ AggregateIdx # {}
    /\ \E i \in OwnIdx : trace[i].topic = T_navigation_next

(***************************************************************************)
(* C11: a setState(patch) that is not silent publishes one                 *)
(* state:<key>:changed for each key whose value identity differs between   *)
(* the previous and the next state and for no other key, then one          *)
(* state:changed whose changedKeys are exactly these keys, and publishes   *)
(* nothing when no key changed; a silent setState calls no subscriber and  *)
(* publishes nothing, and still replaces the state.                        *)
(***************************************************************************)
ChangedKeySet == {key \in DOMAIN state : pre.state[key] # state[key]}
KeyTopic(key) == StatePrefix \o KeyChars[key] \o ChangedSuffix
Merged(old, patch) ==
    [key \in DOMAIN old \cup DOMAIN patch |->
        IF key \in DOMAIN patch THEN patch[key] ELSE old[key]]

C11_ChangedKeys ==
    op.name = "setState" =>
        /\ state = Merged(pre.state, op.args[1])
        /\ DOMAIN objects = {0, 1}
        /\ IF op.args[2]
           THEN trace = <<>>
           ELSE /\ \A key \in DOMAIN state :
                      Cardinality({i \in EmitIdx : trace[i].topic = KeyTopic(key)}) =
                          (IF key \in ChangedKeySet THEN 1 ELSE 0)
                /\ \A i \in KeyEmitIdx : \E key \in DOMAIN state : trace[i].topic = KeyTopic(key)
                /\ OwnIdx = {}
                /\ Cardinality(AggregateIdx) = (IF ChangedKeySet = {} THEN 0 ELSE 1)
                /\ \A i \in AggregateIdx :
                      /\ Range(trace[i].data.changedKeys) = ChangedKeySet
                      /\ Len(trace[i].data.changedKeys) = Cardinality(ChangedKeySet)

\* the patch named events and view; only the events array is another one,
\* though its elements are the same
C11_Witness ==
    /\ op.name = "setState"
    /\ ~op.args[2]
    /\ DOMAIN op.args[1] = {"events", "view"}
    /\ ChangedKeySet = {"events"}
    /\ pre.state.events.items = state.events.items
    /\ AggregateIdx # {}

(***************************************************************************)
(* C12: setState(patch) replaces the state object and does not mutate it:  *)
(* the next state is the previous one with exactly the keys of patch       *)
(* overwritten; the object that was the state before the call (which       *)
(* earlier observers hold) and every object handed to a subscriber during  *)
(* the call still have the contents they had; each subscriber call and     *)
(* each state:changed payload carries this previous and this next state.   *)
(***************************************************************************)
C12_ReplacedNotMutated ==
    op.name = "setState" =>
        /\ state = Merged(pre.state, op.args[1])
        /\ \A key \in DOMAIN state \ DOMAIN op.args[1] : state[key] = pre.state[key]
        /\ objects[0] = pre.state
        /\ \A i \in SubscriberIdx :
              /\ objects[trace[i].self] = trace[i].newState
              /\ trace[i].newState = state
              /\ trace[i].oldState = pre.state
        /\ \A i \in AggregateIdx :
              /\ trace[i].data.newState = state
              /\ trace[i].data.oldState = pre.state

\* a setState that changed the loading flag, seen by two subscribers and the bus
C12_Witness ==
    /\ op.name = "setState"
    /\ ~op.args[2]
    /\ Cardinality(SubscriberIdx) = 2
    /\ state.loading # pre.state.loading
    /\ AggregateIdx # {}

(***************************************************************************)
(* C13: selectEvent and deselectEvent change only selectedEvent, selectDate*)
(* and deselectDate change only selectedDate: the other selection, view,   *)
(* currentDate, events, every other key and the engine are as before the   *)
(* call, whatever calls came before.                                       *)
(***************************************************************************)
OnlyKeyTouched(key) ==
    /\ \A other \in DOMAIN state \ {key} : state[other] = pre.state[other]
    /\ DOMAIN state = DOMAIN pre.state
    /\ calendar = pre.calendar

C13_SelectionIndependence ==
    /\ op.name \in {"selectEvent", "selectEventById", "deselectEvent"}
          => OnlyKeyTouched("selectedEvent")
    /\ op.name = "selectEvent" => state.selectedEvent = Some(op.args[1])
    /\ op.name = "deselectEvent" => state.selectedEvent = Null
    /\ op.name \in {"selectDate", "deselectDate"} => OnlyKeyTouched("selectedDate")
    /\ op.name = "selectDate" => state.selectedDate = Some(op.args[1])
    /\ op.name = "deselectDate" => state.selectedDate = Null

\* the date was deselected while an event was selected, and the event stayed
C13_Witness ==
    /\ op.name = "deselectDate"
    /\ pre.state.selectedDate # Null
    /\ pre.state.selectedEvent # Null
    /\ state.selectedEvent = pre.state.selectedEvent

(***************************************************************************)
(* C14: after setView, setDate, goToDate, next, previous or today returns, *)
(* the mirrored view and currentDate equal the engine's view and current   *)
(* date, for every argument, including a view the engine does not adopt.   *)
(***************************************************************************)
C14_NavigationMirrorsEngine ==
    op.name \in {"setView", "setDate", "goToDate", "next", "previous", "today"} =>
        /\ state.view = calendar.view
        /\ state.currentDate = calendar.date

\* the structure the engine held when the last getViewData call was made
EngineStructure == ViewShapes(op.args[2], op.args[3], op.args[4])[op.args[1]]

(***************************************************************************)
(* C15: getViewData never modifies the structure the engine returned:      *)
(* after the call every object and array of it (top level, weeks, days,    *)
(* day entries) has the fields and values it had before, whatever the      *)
(* selection is.                                                           *)
(***************************************************************************)
C15_EngineStructureUntouched ==
    op.name = "getViewData" =>
        /\ Len(heap) >= Len(EngineStructure)
        /\ SubSeq(heap, 1, Len(EngineStructure)) = EngineStructure

\* a month grid was enriched while a date was selected: the result has its
\* own weeks array, and its day entries carry the fields the engine's lack
C15_Witness ==
    /\ op.name = "getViewData"
    /\ op.args[1] = 1
    /\ state.selectedDate # Null
    /\ ret[1] = "viewData"
    /\ heap[ret[2]].weeks # EngineStructure[1].weeks
    /\ heap[heap[heap[heap[heap[ret[2]].weeks][1]].days][1]].isSelected
    /\ "isSelected" \notin DOMAIN EngineStructure[7]

\* the day entries of the structure rooted at root, in order
RECURSIVE WeekDays(_, _, _)
WeekDays(h, weeks, i) ==
    IF i > Len(weeks) THEN <<>>
    ELSE h[h[weeks[i]].days] \o WeekDays(h, weeks, i + 1)
DayEntries(h, root) ==
    IF "weeks" \in DOMAIN h[root] THEN WeekDays(h, h[h[root].weeks], 1)
    ELSE IF "days" \in DOMAIN h[root] THEN h[h[root].days]
    ELSE <<root>>
SameDay(a, b) == a \div InstantsPerDay = b \div InstantsPerDay

\* what enrichment must make of one day entry of the engine
C16_EntryEnriched(before, after) ==
    /\ after.date = before.date
    /\ after.isSelected = (/\ state.selectedDate # Null
                           /\ SameDay(before.date, state.selectedDate[1]))
    /\ after.events = IF "events" \in DOMAIN before THEN before.events
                      ELSE coreGetEventsForDate(calendar, before.date)

(***************************************************************************)
(* C16: in the result of getViewData a day entry is selected exactly when  *)
(* selectedDate is set and falls on the entry's calendar day; an entry the *)
(* engine supplied with events keeps them, and one supplied without gets   *)
(* the engine's getEventsForDate result for its date. This holds for the   *)
(* weeks[].days[], days[] and single-day shapes.                           *)
(***************************************************************************)
C16_Enrichment ==
    op.name = "getViewData" =>
        /\ ret[1] = "viewData"
        /\ Len(DayEntries(heap, ret[2])) = Len(DayEntries(EngineStructure, 1))
        /\ \A i \in DOMAIN DayEntries(EngineStructure, 1) :
              C16_EntryEnriched(EngineStructure[DayEntries(EngineStructure, 1)[i]],
                                heap[DayEntries(heap, ret[2])[i]])

\* a date is selected at another instant of a day entry's day and the entry
\* is selected; an entry without events got a non-empty lookup result, and
\* an entry supplied with no events kept none on a day that has events
C16_Witness ==
    /\ op.name = "getViewData"
    /\ state.selectedDate # Null
    /\ \E i \in DOMAIN DayEntries(heap, ret[2]) :
          /\ heap[DayEntries(heap, ret[2])[i]].isSelected
          /\ heap[DayEntries(heap, ret[2])[i]].date # state.selectedDate[1]
    /\ \E i \in DOMAIN DayEntries(EngineStructure, 1) :
          /\ "events" \notin DOMAIN EngineStructure[DayEntries(EngineStructure, 1)[i]]
          /\ heap[DayEntries(heap, ret[2])[i]].events # <<>>
    /\ \E i \in DOMAIN DayEntries(EngineStructure, 1) :
          /\ "events" \in DOMAIN EngineStructure[DayEntries(EngineStructure, 1)[i]]
          /\ heap[DayEntries(heap, ret[2])[i]].events = <<>>
          /\ calendar.events # <<>>
          /\ SameDay(heap[DayEntries(heap, ret[2])[i]].date, Today)

(***************************************************************************)
(* C17: what getState and getEvents return are defensive copies: when the  *)
(* caller adds, removes or replaces an element of a returned events array, *)
(* or sets or deletes a key of a returned config, the store's state and    *)
(* the engine's collection stay as they were, and so does what getState    *)
(* and getEvents return afterwards.                                        *)
(***************************************************************************)
C17_DefensiveCopies ==
    op.name = "edit" =>
        /\ state = pre.state
        /\ calendar = pre.calendar

\* the part of C17 that is about getState: an edit of what it returned
\* leaves the store and the engine alone
C17_GetStateCopies ==
    (op.name = "edit" /\ Len(heap) = CoreEvents + 3) =>
        /\ state = pre.state
        /\ calendar = pre.calendar

\* the subscriptions a snapshot holds for topic t, in order
ListOf(snap, t) == IF t \in DOMAIN snap.events THEN snap.events[t] ELSE <<>>

(***************************************************************************)
(* C18: after offAll(h) returns, no exact-topic list and no wildcard       *)
(* pattern holds a subscription whose handler is h, also when h was        *)
(* registered more than once on one topic, and the subscriptions of every  *)
(* other handler are unchanged.                                            *)
(***************************************************************************)
C18_OffAllRemovesAll ==
    op.name = "offAll" =>
        /\ \A s \in AllSubs(Heap) : s.handler # op.args[1]
        /\ \A t \in DOMAIN pre.events \cup DOMAIN events :
              ListOf(Heap, t) = SelectSeq(ListOf(pre, t), LAMBDA s : s.handler # op.args[1])
        /\ wildcardHandlers =
              SelectSeq(pre.wildcardHandlers, LAMBDA s : s.handler # op.args[1])

(***************************************************************************)
(* C19: calling the function on()/once() returned removes exactly the      *)
(* subscription that call created and no other, also when the same handler *)
(* is registered again on the same topic or on other topics or patterns;   *)
(* calling it again changes nothing.                                       *)
(***************************************************************************)
C19_UnsubscribeExact ==
    op.name = "unsubscribeFn" =>
        /\ \A t \in DOMAIN pre.events \cup DOMAIN events :
              ListOf(Heap, t) = SelectSeq(ListOf(pre, t), LAMBDA s : s.id # op.args[1])
        /\ wildcardHandlers =
              SelectSeq(pre.wildcardHandlers, LAMBDA s : s.id # op.args[1])
        /\ (\A s \in AllSubs(pre) : s.id # op.args[1]) => AllSubs(Heap) = AllSubs(pre)

\* the handler was registered twice, the function of one registration was
\* called, and the other registration is still there
C19_Witness ==
    /\ op.name = "unsubscribeFn"
    /\ \E s \in AllSubs(pre) : \E r \in AllSubs(Heap) :
          /\ s.id = op.args[1]
          /\ r.id # s.id
          /\ r.handler = s.handler
    /\ \A s \in AllSubs(Heap) : s.id # op.args[1]

\* the function was called a second time with another subscription registered
C19_WitnessAgain ==
    /\ op.name = "unsubscribeFn"
    /\ AllSubs(pre) # {}
    /\ \A s \in AllSubs(pre) : s.id # op.args[1]

(***************************************************************************)
(* C20: the completion emit returned resolves only after every deferred    *)
(* result its handlers returned has settled: while a handler result is     *)
(* pending the completion is pending, also when another result rejected.   *)
(* (Handler execution is not delayed by a pending result:                  *)
(* C20_ExecutionNotDelayed.)                                               *)
(***************************************************************************)
C20_CompletionAfterAll ==
    promises.completion # "pending" =>
        \A i \in DOMAIN promises.results : promises.results[i] # "pending"

\* when emit returns, every matching subscription has been called, whatever
\* the handlers called before it returned
C20_ExecutionNotDelayed ==
    op.name = "emit" =>
        /\ Len(Calls) = Cardinality(MatchingSubs(pre, Published[1].topic))
        /\ Len(promises.results) =
              Cardinality({i \in DOMAIN Calls : Calls[i].sub.handler \in AsyncHandlers})

(***************************************************************************)
(* C21: after destroy the store holds no direct subscriber and no          *)
(* subscriber-id registration, and no callback that was subscribed before  *)
(* destroy is invoked by the store again, whatever is called afterwards.   *)
(***************************************************************************)
C21_DestroyReleases ==
    /\ op.name = "destroy" => (subscribers = <<>> /\ subscriberIds = Null)
    /\ calendar = Released =>
          /\ subscriberIds = Null
          /\ \A i \in DOMAIN subscribers : subscribers[i] \notin Callbacks
          /\ \A i \in DOMAIN SubscriberCalls : SubscriberCalls[i].callback \notin Callbacks

\* a destroyed store with a callback subscribed afterwards changed its state
\* and called that callback
C21_Witness ==
    /\ op.name = "selectDate"
    /\ pre.calendar = Released
    /\ Len(SubscriberCalls) = 1
    /\ SubscriberCalls[1].callback \in LateCallbacks

\* destroy was called on a store with two subscribers and an id registration
C21_WitnessDestroy ==
    /\ op.name = "destroy"
    /\ Len(pre.subscribers) = 2
    /\ pre.subscriberIds # Null

\* the events and the layout of the last computeOverlapLayout call
LaidOut == op.args[1]
Layout == ret[2]
Intersect(a, b) == Max(a.start, b.start) < (IF a.end <= b.end THEN a.end ELSE b.end)

(***************************************************************************)
(* C22: any two events of the input whose time ranges [start, end)         *)
(* intersect get different columns from computeOverlapLayout, also when an *)
(* event ends at or after midnight of the following day.                   *)
(***************************************************************************)
C22_CollisionFree ==
    op.name = "computeOverlapLayout" =>
        \A i \in DOMAIN LaidOut : \A j \in DOMAIN LaidOut :
            (i # j /\ Intersect(LaidOut[i], LaidOut[j])) =>
                Layout[LaidOut[i].id].column # Layout[LaidOut[j].id].column

\* C22 for lists whose events all end before midnight
C22_CollisionFreeWithinDay ==
    (/\ op.name = "computeOverlapLayout"
     /\ \A i \in DOMAIN LaidOut : LaidOut[i].end < MinutesPerDay) =>
        \A i \in DOMAIN LaidOut : \A j \in DOMAIN LaidOut :
            (i # j /\ Intersect(LaidOut[i], LaidOut[j])) =>
                Layout[LaidOut[i].id].column # Layout[LaidOut[j].id].column

\* the minute intervals of the input, and the overlap clusters: i and j are
\* in one cluster when a chain of overlapping intervals leads from i to j
Interval(i) == toEntry(LaidOut[i])
Overlap(i, j) ==
    /\ Interval(i).startMin < Interval(j).endMin
    /\ Interval(j).startMin < Interval(i).endMin
RECURSIVE Chained(_, _, _)
Chained(i, j, n) ==
    \/ i = j
    \/ n > 0 /\ \E k \in DOMAIN LaidOut : Overlap(i, k) /\ Chained(k, j, n - 1)
SameCluster(i, j) == Chained(i, j, Len(LaidOut))

ControllerIdx ==
    {i \in DOMAIN trace : /\ trace[i].k = "subscriber"
                          /\ trace[i].callback = HandleStateChange}
Did(kind) == \E i \in DOMAIN trace : trace[i].k = kind
Changed(i, key) == Field(trace[i].newState, key) # Field(trace[i].oldState, key)
OnlyChanged(i, keys) ==
    /\ \E key \in keys : Changed(i, key)
    /\ \A j \in DOMAIN StateKeys : StateKeys[j] \notin keys => ~Changed(i, StateKeys[j])

\* C24: on a state-change notification the controller does one thing, chosen
\* by priority. The tree is rebuilt only if error changed; the view renderer
\* is swapped only if error did not change, loading did not change and view
\* changed; and when nothing but the selection changed, the controller does
\* nothing: no rebuild, no swap, no repaint.
C24_ReconciliationPriority ==
    \A i \in ControllerIdx :
        /\ ~Changed(i, "error") => ~Did("render")
        /\ ~Changed(i, "error") /\ (Changed(i, "loading") \/ ~Changed(i, "view"))
              => ~Did("construct") /\ ~Did("dispose")
        /\ OnlyChanged(i, {"selectedDate", "selectedEvent"})
              => ~Did("render") /\ ~Did("construct") /\ ~Did("dispose") /\ ~Did("paint")

\* C25: a notification in which only currentDate differs leaves the view
\* renderer in place: the renderer that was active before the call is the
\* active one after it, and none was disposed or constructed.
C25_DateChangeKeepsRenderer ==
    \A i \in ControllerIdx :
        OnlyChanged(i, {"currentDate"})
            => /\ component.instance = pre.component.instance
               /\ ~Did("construct")
               /\ ~Did("dispose")

\* the view of the current view type is what the tree shows
ViewShown ==
    /\ component.panel = "view"
    /\ component.instance # Null
    /\ component.renderers[component.instance[1]].viewType = state.view
    /\ component.container = Some(component.renderers[component.instance[1]].container)
    /\ component.painted

\* the last call cleared an error that was set
ErrorCleared ==
    /\ pre.state.error # Null
    /\ \/ op.name = "clearError"
       \/ op.name = "setError" /\ op.args[1] = Null

\* while state.error is set: the error panel and nothing else, no renderer
\* constructed and none painting into the tree
ErrorPanelOnly ==
    /\ component.panel = "error"
    /\ component.container = Null
    /\ ~Did("construct")
    /\ \A i \in DOMAIN trace : trace[i].k = "paint" => ~trace[i].visible

\* the topic error is published by setError with an error, and by nothing else
ErrorTopicOnlyFromSetError ==
    \A i \in DOMAIN trace :
        trace[i].k = "emit" /\ trace[i].topic = T_error
            => op.name = "setError" /\ op.args[1] # Null

\* C27, as stated: while state.error is non-null the tree is the error panel
\* only, whatever was called; once the error is cleared the view of the
\* current view type is shown again; the topic error is published only by
\* setError with a non-null error.
C27_ErrorPanel ==
    Mounted =>
        /\ state.error # Null => ErrorPanelOnly
        /\ ErrorCleared => ViewShown
        /\ ErrorTopicOnlyFromSetError

\* C27, amended: as C27_ErrorPanel, but once the error is cleared the view
\* is shown again only if loading is not set; if loading is set, the loading
\* indicator is shown and there is no view container.
C27_ErrorPanelUnlessLoading ==
    Mounted =>
        /\ state.error # Null => ErrorPanelOnly
        /\ ErrorCleared /\ ~state.loading => ViewShown
        /\ ErrorCleared /\ state.loading
              => component.panel = "loading" /\ component.container = Null
        /\ ErrorTopicOnlyFromSetError

\* The error is set and another state change has been made since.
C27_Witness ==
    /\ Mounted
    /\ state.error # Null
    /\ pre.state.error # Null
    /\ op.name = "setView"
    /\ pre.state.view # state.view
    /\ ErrorPanelOnly

\* The error has been cleared and the view is shown again.
C27_WitnessCleared ==
    /\ Mounted
    /\ op.name = "clearError"
    /\ pre.state.error # Null
    /\ pre.component.panel = "error"
    /\ ViewShown
    /\ Did("construct")

\* C30: when the controller constructs a view renderer, no renderer holds
\* listeners and the store holds no view-renderer subscription; and the
\* store holds at most one view-renderer subscription at any time.
C30_DisposeBeforeConstruct ==
    /\ \A i \in DOMAIN trace :
           trace[i].k = "construct"
               => trace[i].listening = {} /\ trace[i].subscribed = {}
    /\ Cardinality({i \in DOMAIN subscribers :
                       Contains(ViewCallbacks, subscribers[i])}) <= 1

\* A renderer that holds listeners and a subscription has been replaced by
\* a new one, which is now the only one subscribed.
C30_Witness ==
    /\ Did("dispose")
    /\ Did("construct")
    /\ pre.component.instance # Null
    /\ pre.component.instance[1] \in pre.component.listening
    /\ Contains(pre.subscribers, ViewCallbacks[pre.component.instance[1]])
    /\ component.instance # pre.component.instance
    /\ Cardinality({i \in DOMAIN subscribers :
                       Contains(ViewCallbacks, subscribers[i])}) = 1


\* the subscriptions of the bus, in the given snapshot, that the element made
SubsOf(snap, element) == {sub \in AllSubs(snap) : sub.handler \in HandlersOf(element)}

\* C26: two elements do not cross-talk. A call on the store of element A
\* invokes no bus handler that element B registered, and destroying element
\* A leaves the bus subscriptions of element B in place.
C26_NoCrossTalk ==
    /\ op.name \notin {"connectedCallback", "ForceCalendar.destroy"}
          => \A i \in DOMAIN trace :
                 trace[i].k = "call" => trace[i].sub.handler \notin HandlersOf("B")
    /\ op = [name |-> "ForceCalendar.destroy", args |-> <<"A">>]
          => SubsOf(pre, "B") \subseteq SubsOf(Heap, "B")

\* the last newState the callback was called with in the last call
LastDelivered(callback) ==
    LET calls == {i \in SubscriberIdx : trace[i].callback = callback}
    IN trace[CHOOSE i \in calls : \A j \in calls : j <= i].newState

\* C28: cascades do not interleave. Also when a subscriber calls a
\* state-changing method of the store while it is notified, the last
\* newState every direct subscriber was called with is the state of the
\* store when the outermost call has returned.
C28_CascadesDoNotInterleave ==
    \A i \in SubscriberIdx : LastDelivered(trace[i].callback) = state

\* C29: a one-shot wildcard subscription is invoked at most once, also when
\* a handler called during the pass emits another matching topic, and it is
\* no longer registered after the pass in which it was delivered.
C29_WildcardOnceAtMostOnce ==
    op.name = "emit" =>
        \A i \in CallIdx :
            IsWildcardSub(trace[i].sub) /\ trace[i].sub.once
                => /\ \A j \in CallIdx : trace[j].sub = trace[i].sub => j = i
                   /\ trace[i].sub \notin AllSubs(Heap)

\* C29 for a pass during which no handler emits: the one-shot wildcard
\* subscriptions delivered are called once and are gone afterwards.
C29_WildcardOnceWithoutNesting ==
    op.name = "emit" /\ Cardinality(EmitIdx) = 1 =>
        \A i \in CallIdx :
            IsWildcardSub(trace[i].sub) /\ trace[i].sub.once
                => /\ \A j \in CallIdx : trace[j].sub = trace[i].sub => j = i
                   /\ trace[i].sub \notin AllSubs(Heap)

(***************************************************************************)
(* Overlap layout of the events of one day: every event ends before the    *)
(* following midnight. An event is in progress from its start minute to    *)
(* its end, a zero-length event during its start minute.                   *)
(***************************************************************************)
WithinDay == \A i \in DOMAIN LaidOut : LaidOut[i].end < MinutesPerDay
Until(i) == Max(LaidOut[i].start + 1, LaidOut[i].end)
InProgress(i, m) == LaidOut[i].start <= m /\ m < Until(i)
Column(i) == Layout[LaidOut[i].id].column
Cluster(i) == {j \in DOMAIN LaidOut : SameCluster(i, j)}
\* the largest number of events of the cluster of i in progress at one minute
Depth(i) ==
    CHOOSE d \in 1..Len(LaidOut) :
        /\ \E m \in 0..(MinutesPerDay - 1) :
              Cardinality({j \in Cluster(i) : InProgress(j, m)}) = d
        /\ \A m \in 0..(MinutesPerDay - 1) :
              Cardinality({j \in Cluster(i) : InProgress(j, m)}) <= d

C31_WitnessAlone ==
    /\ op.name = "computeOverlapLayout"
    /\ WithinDay
    /\ Len(LaidOut) = 3
    /\ \E i \in DOMAIN LaidOut :
          /\ Cluster(i) = {i}
          /\ Column(i) = 0
          /\ Layout[LaidOut[i].id].totalColumns = 1
          /\ \A j \in DOMAIN LaidOut \ {i} : Layout[LaidOut[j].id].totalColumns = 2

Orders(n) == {p \in [1..n -> 1..n] : \A k \in 1..n : \E l \in 1..n : p[l] = k}
Permuted(evts, p) == [k \in DOMAIN evts |-> evts[p[k]]]

\* C35: the layout does not depend on the order of the input: the events
\* given in any other order get the same column and totalColumns, id by id.
C35_OrderIndependent ==
    op.name = "computeOverlapLayout" /\ WithinDay =>
        \A p \in Orders(Len(LaidOut)) :
            computeOverlapLayout(Permuted(LaidOut, p)) = Layout

\* C35 for lists in which no two events have the same start minute and the
\* same end
C35_OrderIndependentWithoutTies ==
    (/\ op.name = "computeOverlapLayout"
     /\ WithinDay
     /\ \A i \in DOMAIN LaidOut : \A j \in DOMAIN LaidOut :
           i # j => LaidOut[i].start # LaidOut[j].start \/ Until(i) # Until(j)) =>
        \A p \in Orders(Len(LaidOut)) :
            computeOverlapLayout(Permuted(LaidOut, p)) = Layout

\* topic is pattern with every `*` replaced by some run of characters
RECURSIVE IsInstanceOf(_, _)
IsInstanceOf(topic, pattern) ==
    IF pattern = <<>> THEN topic = <<>>
    ELSE IF Head(pattern) = "*"
    THEN \E i \in 0..Len(topic) :
            IsInstanceOf(SubSeq(topic, i + 1, Len(topic)), Tail(pattern))
    ELSE /\ topic # <<>>
         /\ Head(topic) = Head(pattern)
         /\ IsInstanceOf(Tail(topic), Tail(pattern))

\* C32: matchesPattern(topic, pattern) is true exactly when topic is the
\* pattern with each `*` replaced by a run of characters, possibly empty;
\* every other character of the pattern, the dot included, matches itself
\* only.
C32_GlobMatch ==
    op.name = "matchesPattern" =>
        ret = Result("boolean", IsInstanceOf(op.args[1], op.args[2]))

\* C32 for patterns without a dot
C32_GlobMatchWithoutDot ==
    op.name = "matchesPattern" /\ ~Contains(op.args[2], ".") =>
        ret = Result("boolean", IsInstanceOf(op.args[1], op.args[2]))

\* C36: after syncEvents() state.events holds the engine's collection, also
\* when the engine was modified directly without a change of the id set, and
\* every direct subscriber has been notified if the collection differed from
\* the mirror.
C36_SyncMirrorsEngine ==
    op.name = "syncEvents" =>
        /\ state.events.items = calendar.events
        /\ pre.state.events.items # pre.calendar.events
              => \A i \in DOMAIN pre.subscribers :
                     \E j \in SubscriberIdx : trace[j].callback = pre.subscribers[i]

\* C36 as far as the ids go: after syncEvents() the mirror holds the ids of
\* the engine's collection, and the subscribers have been notified if the ids
\* differed.
C36_SyncMirrorsIds ==
    op.name = "syncEvents" =>
        /\ Ids(state.events.items) = Ids(calendar.events)
        /\ Ids(pre.state.events.items) # Ids(pre.calendar.events)
              => \A i \in DOMAIN pre.subscribers :
                     \E j \in SubscriberIdx : trace[j].callback = pre.subscribers[i]

\* C37: the subscriptions one emit(topic) invokes are those that were
\* registered for the topic, exactly or by a wildcard pattern, when the emit
\* started: none that a handler added during the pass, and all of them even
\* if a handler removed one during the pass.
C37_HandlerSetFixed ==
    op.name = "emit" =>
        {trace[i].sub : i \in CallIdx} = MatchingSubs(pre, op.args[1])

\* C37 for the wildcard subscriptions when only wildcard handlers change the
\* subscriptions: the wildcard pass runs over the subscriptions as they were
\* when it started.
C37_WildcardPassFixed ==
    (/\ op.name = "emit"
     /\ \A t \in DOMAIN pre.events : \A i \in DOMAIN pre.events[t] :
           pre.events[t][i].handler \notin AddingHandlers \cup RemovingHandlers) =>
        {trace[i].sub : i \in CallIdx} = MatchingSubs(pre, op.args[1])

\* the paints into the tree made during the last call
VisiblePaints == {j \in DOMAIN trace : trace[j].k = "paint" /\ trace[j].visible}

\* C38: for a notification in which events or currentDate changed the view
\* is painted exactly once, and a view renderer callback subscribed while
\* the notification is delivered is not called for that notification.
C38_PaintedOnce ==
    \A i \in ControllerIdx :
        (Changed(i, "events") \/ Changed(i, "currentDate")) /\ component.panel = "view"
            => /\ Cardinality(VisiblePaints) = 1
               /\ \A j \in SubscriberIdx :
                      Contains(ViewCallbacks, trace[j].callback)
                          => Contains(pre.subscribers, trace[j].callback)

\* C38 for the notifications in which neither events nor currentDate
\* changed: the view that the controller rebuilds is painted once.
C38_PaintedOnceOtherwise ==
    \A i \in ControllerIdx :
        ~Changed(i, "events") /\ ~Changed(i, "currentDate") /\ component.panel = "view"
            => Cardinality(VisiblePaints) = 1

\* the registry of subscriber ids in the given snapshot
Registry(snap) == IF snap.subscriberIds = Null THEN EmptyMap ELSE snap.subscriberIds[1]
Reachable(snap) == {Registry(snap)[id] : id \in DOMAIN Registry(snap)}

\* C39: the registry of subscriber ids and the set of subscribers stay
\* consistent. Every registered id maps to a subscribed callback; a callback
\* that was reachable under an id and is still subscribed is still reachable
\* under an id; and unsubscribeById returns true exactly when it removed a
\* subscriber.
C39_RegistryConsistent ==
    /\ \A id \in DOMAIN Registry(Heap) : Contains(subscribers, Registry(Heap)[id])
    /\ \A callback \in Reachable(pre) :
           Contains(subscribers, callback) => callback \in Reachable(Heap)
    /\ op.name = "unsubscribeById"
           => ret = Result("boolean", subscribers # pre.subscribers)

\* C39 for unsubscribeById alone: it returns true exactly when the id was
\* registered, and then the id is registered no more.
C39_UnsubscribeByIdRemovesId ==
    op.name = "unsubscribeById" =>
        /\ ret = Result("boolean", op.args[1] \in DOMAIN Registry(pre))
        /\ op.args[1] \notin DOMAIN Registry(Heap)

\* C40: selectedEvent is null or an event whose id is in state.events, and
\* selectEventById with an id that is not in state.events changes nothing
\* and notifies nobody.
C40_SelectionInMirror ==
    /\ state.selectedEvent # Null
           => state.selectedEvent[1].id \in Ids(state.events.items)
    /\ op.name = "selectEventById" /\ op.args[1] \notin Ids(pre.state.events.items)
           => state = pre.state /\ trace = <<>>

\* C40, the second half alone: selectEventById with an id that is not in
\* state.events changes nothing and notifies nobody.
C40_SelectUnknownId ==
    op.name = "selectEventById" /\ op.args[1] \notin Ids(pre.state.events.items)
        => state = pre.state /\ trace = <<>>

=============================================================================
